---- MODULE Spec2Model ----
(***************************************************************************)
(* Energy-trading negotiation protocol of agentic-grid: the agent graph    *)
(* (src/src/agents/agent_graph.py), the agent processes that serve it      *)
(* (src/src/agents/utility/main.py, src/src/agents/solar/main.py; the      *)
(* module src/src/agents/household/main.py stops while it is loaded) and   *)
(* the mock gateway (src/src/protocols/beckn/mock_gateway.py).             *)
(*                                                                         *)
(* Units: energy in 1/100 kWh (1500 = 15.0 kWh), prices in 1/100 per kWh   *)
(* (15 = 0.15).  The float comparisons of the code are exact on these      *)
(* values (0.3*15.0 = 4.5, 0.6*15.0 = 9.0, 0.7*15.0 = 10.5 in IEEE).       *)
(* Optional values are sequences: <<>> is None / absent, <<x>> is x; the   *)
(* field unset of a state names the optional keys it does not hold.        *)
(* A transaction id is a positive number, 0 is None.                       *)
(*                                                                         *)
(* Time is counted in seconds.                                             *)
(*                                                                         *)
(* Scheduling: each process runs its coroutines on one event loop.  A      *)
(* request handler runs to its answer without a break.  A call of          *)
(* invoke_and_dispatch is suspended inside astream between the supersteps  *)
(* of the graph run and at its transport call, and anything else of the    *)
(* process may run meanwhile.  A graph run loads the latest checkpoint of  *)
(* its thread, applies its input and stores a checkpoint (Tick, RunTask);  *)
(* every superstep runs one node on the run's own values and stores them   *)
(* as the thread's latest checkpoint (Superstep); after the stream the     *)
(* caller reads the thread's latest checkpoint, whichever run stored it    *)
(* (Dispatch).  A transport call is a step at its destination (Deliver)    *)
(* and a later step at its sender (Return), or one failure (PostFail).     *)
(* A node that reads a key its state does not have, or dereferences a      *)
(* value that is None, raises (KeyError, AttributeError): the run stores   *)
(* nothing more and invoke_and_dispatch ends with the exception.           *)
(***************************************************************************)
EXTENDS Integers, Sequences, FiniteSets, Bags, TLC

\* ---------------------------------------------------------------- bounds
MaxTx == 1        \* transaction ids of a run
MaxFail == 1      \* transport calls to a serving process that fail
MaxNow == 10      \* seconds a run lasts
MaxLag == 1       \* transport calls answered whose sender has not resumed yet
MaxEvents == 1    \* failures and time steps of a run together
MaxRunning == 1   \* invocations of the whole system in their graph run at the same time
GatewayTicks == 1  \* simulation cycles in the runs of SpecGateway
GatewayEvents == 1 \* failures in the runs of SpecGateway
RequestsEvents == 1  \* failures and time steps in the runs of SpecRequests
RequestsRunning == 2 \* the same, in the runs of SpecRequests

\* ------------------------------------------------------ program constants
MAX_CAPACITY_KWH == 1500
UTILITY_CAPACITY_KWH == 99999900
SOLAR_CAPACITY_KWH == 1500
SOLAR_ENERGY_KWH == 200
SOLAR_GENERATION == 50
TTL == 60

None == <<>>
Some(x) == <<x>>

H1 == "household-agent-01"
H2 == "household-agent-02"
U1 == "utility-agent-01"
S1 == "solar-agent-01"
Households == {H1, H2}
Agents == {H1, H2, U1, S1}

GATEWAY_URL == "http://localhost:9000"
UTILITY_URL == "http://utility_agent:8002"
SOLAR_URL == "http://localhost:8001"
\* a callback address outside the system
OUTSIDE_URL == "http://bap.example"
OUTSIDE_ID == "bap-01"

\* agent_type each module passes to AgentProfile for its INITIAL_PROFILE
AgentType(a) ==
  IF a \in Households THEN "household" ELSE IF a = S1 THEN "solar" ELSE "utility"

\* int(profile.agent_id.split('-')[-1])
AgentNum(id) == IF id = H2 THEN 2 ELSE 1

\* f"http://household_agent_{int(agent_num)}:{port}", port = 8001 + (n-1)*2
HouseholdUrl(n) ==
  IF n = 1 THEN "http://household_agent_1:8001" ELSE "http://household_agent_2:8003"

\* the bpp_uri each module registers: AGENT_OWN_URL, settings.SOLAR_AGENT_BASE_URL,
\* "http://utility_agent:8002"
OwnUrl(a) ==
  IF a \in Households THEN HouseholdUrl(AgentNum(a))
  ELSE IF a = S1 THEN SOLAR_URL ELSE UTILITY_URL

\* best_offer.provider_id.startswith('utility')
StartsWithUtility(id) == id = U1

\* -------------------------------------------------------------- data types
\* A constructor or parse_obj that validates yields the object in a
\* one-element sequence, or ValidationError when pydantic raises.
ValidationError == <<>>

\* agent_type: Literal['utility', 'solar']
AgentTypeLiteral == {"utility", "solar"}

\* the attributes of an AgentProfile object
ProfileFields(id, type, energy, cap) ==
  [agent_id |-> id, agent_type |-> type,
   current_energy_storage_kwh |-> energy, max_capacity_kwh |-> cap]

\* AgentProfile(agent_id=, agent_type=, current_energy_storage_kwh=, max_capacity_kwh=)
AgentProfile(id, type, energy, cap) ==
  IF type \in AgentTypeLiteral
  THEN Some(ProfileFields(id, type, energy, cap))
  ELSE ValidationError

\* BecknContext; timestamp is the time of creation, in seconds
BecknContext(action, bap_id, bap_uri, tx, ts) ==
  [action |-> action, bap_id |-> bap_id, bap_uri |-> bap_uri,
   bpp_id |-> "", bpp_uri |-> "", transaction_id |-> tx,
   timestamp |-> ts, ttl |-> TTL]

\* the step of the time, in seconds
TIME_STEP == 10

\* timedelta(seconds=60) of an offer, timedelta(seconds=10) of the offer stub
\* of a contract
OFFER_VALIDITY == 60
STUB_VALIDITY == 10

\* the attributes of an EnergyOffer object
OfferFields(id, provider, qty, price, valid_until) ==
  [offer_id |-> id, provider_id |-> provider, quantity_kwh |-> qty,
   price_per_kwh |-> price, valid_until |-> valid_until]

\* EnergyOffer(...) evaluated at time t: quantity_kwh and price_per_kwh are
\* Field(..., gt=0), and set_and_validate_valid_until raises when
\* valid_until <= now_utc()
EnergyOffer(id, provider, qty, price, valid_until, t) ==
  IF qty > 0 /\ price > 0 /\ valid_until > t
  THEN Some(OfferFields(id, provider, qty, price, valid_until))
  ELSE ValidationError

\* EnergyOffer.parse_obj(item) at time t
ParseOffer(item, t) ==
  EnergyOffer(item.offer_id, item.provider_id, item.quantity_kwh,
              item.price_per_kwh, item.valid_until, t)

\* the attributes of an EnergyContract object
ContractFields(id, bap, bpp, qty, price, offer) ==
  [contract_id |-> id, bap_agent_id |-> bap, bpp_agent_id |-> bpp,
   agreed_quantity_kwh |-> qty, agreed_price_per_kwh |-> price,
   original_offer |-> offer, fulfillment_status |-> "pending"]

\* EnergyContract(..., original_offer=offer): offer is an EnergyOffer object,
\* taken as it is; agreed_quantity_kwh and agreed_price_per_kwh are gt=0
EnergyContract(id, bap, bpp, qty, price, offer) ==
  IF qty > 0 /\ price > 0
  THEN Some(ContractFields(id, bap, bpp, qty, price, offer))
  ELSE ValidationError

\* EnergyContract.parse_obj(order) at time t: original_offer is parsed as an
\* EnergyOffer, so its valid_until is validated again
ParseContract(order, t) ==
  IF ParseOffer(order.original_offer, t) = ValidationError
  THEN ValidationError
  ELSE EnergyContract(order.contract_id, order.bap_agent_id, order.bpp_agent_id,
                      order.agreed_quantity_kwh, order.agreed_price_per_kwh,
                      ParseOffer(order.original_offer, t)[1])

\* the Optional keys of P2PAgentState that the nodes write None to and read
\* with a subscript: a state that does not hold the key differs from one that
\* holds None
OptionalKeys == {"active_transaction_context", "selected_offer", "final_contract"}

\* P2PAgentState of a thread nothing was written to yet; unset: the optional
\* keys the state does not hold (profile is never written None: <<>> is the
\* state without the key)
EmptyState ==
  [trigger |-> "", profile |-> None, active_transaction_id |-> 0,
   active_transaction_context |-> None, received_offers |-> <<>>,
   selected_offer |-> None, final_contract |-> None, outgoing_request |-> None,
   unset |-> OptionalKeys]

\* Channel update: received_offers is Annotated[list, operator.add], every
\* other key keeps the last value written; a key written is held from then on.
ApplyUpdate(state, upd) ==
  [k \in DOMAIN state |->
     IF k = "unset" THEN state.unset \ DOMAIN upd
     ELSE IF k \in DOMAIN upd
          THEN IF k = "received_offers" THEN state[k] \o upd[k] ELSE upd[k]
          ELSE state[k]]

\* ---------------------------------------------------------------- routers
\* a variant of route_trigger that answers on_init with another init
route_trigger_init_again(state) ==
  CASE state.trigger = "simulation_cycle"   -> "supervisor"
    [] state.trigger = "incoming_search"    -> "formulate_offer"
    [] state.trigger = "incoming_select"    -> "process_selection"
    [] state.trigger = "incoming_init"      -> "process_init"
    [] state.trigger = "incoming_confirm"   -> "process_confirmation"
    [] state.trigger = "incoming_on_search" -> "evaluate_offers"
    [] state.trigger = "incoming_on_select" -> "send_init"
    [] state.trigger = "incoming_on_init"   -> "send_init"
    [] state.trigger = "incoming_on_confirm" -> "process_bap_completion"
    [] OTHER -> "__end__"

route_trigger(state) ==
  CASE state.trigger = "simulation_cycle"   -> "supervisor"
    [] state.trigger = "incoming_search"    -> "formulate_offer"
    [] state.trigger = "incoming_select"    -> "process_selection"
    [] state.trigger = "incoming_init"      -> "process_init"
    [] state.trigger = "incoming_confirm"   -> "process_confirmation"
    [] state.trigger = "incoming_on_search" -> "evaluate_offers"
    [] state.trigger = "incoming_on_select" -> "send_init"
    [] state.trigger = "incoming_on_init"   -> "send_confirm"
    [] state.trigger = "incoming_on_confirm" -> "process_bap_completion"
    [] OTHER -> "__end__"

route_from_supervisor(state) ==
  IF state.trigger = "start_bap_flow" THEN "initiate_search" ELSE "__end__"

route_after_evaluation(state) ==
  IF state.trigger = "selection_made" THEN "send_select" ELSE "__end__"

\* ------------------------------------------------------------ graph nodes
\* Every node returns the dict of channel updates the code returns, or the
\* exception it raises: KeyError where it reads state['profile'] of a state
\* without that key (every node but evaluate_offers prints it first),
\* AttributeError where it takes an attribute of a None context or offer.
KeyError == [exception |-> "KeyError"]
AttributeError == [exception |-> "AttributeError"]

Url(base, action) == [base |-> base, action |-> action]

QtyHousehold == 1000
QtyUtilityOffer == 50000
QtyContract == 1000
PriceHousehold == 15
PriceUtility == 25

\* Variants of supervisor_node that the properties about the decision cycle
\* tell apart from it.  The first decides on the energy alone.
supervisor_node_no_guard(state) ==
  IF state.profile = None THEN KeyError ELSE
  LET profile == state.profile[1] IN
  IF profile.agent_type = "household"
     /\ 10 * profile.current_energy_storage_kwh < 3 * profile.max_capacity_kwh
  THEN [trigger |-> "start_bap_flow"]
  ELSE [trigger |-> "idle"]

\* the second looks at the energy before the stuck transaction
supervisor_node_energy_first(state) ==
  IF state.profile = None THEN KeyError ELSE
  LET profile == state.profile[1] IN
  IF profile.agent_type = "household"
     /\ 10 * profile.current_energy_storage_kwh < 3 * profile.max_capacity_kwh
  THEN IF state.active_transaction_id # 0
       THEN [trigger |-> "idle"]
       ELSE [trigger |-> "start_bap_flow"]
  ELSE IF state.active_transaction_id # 0 /\ state.trigger = "simulation_cycle"
       THEN [active_transaction_id |-> 0, active_transaction_context |-> None,
             selected_offer |-> None, final_contract |-> None,
             received_offers |-> <<>>, trigger |-> "idle"]
       ELSE [trigger |-> "idle"]

\* the third takes the threshold 0.3 x max_capacity itself for low
supervisor_node_inclusive(state) ==
  IF state.profile = None THEN KeyError ELSE
  LET profile == state.profile[1] IN
  IF state.active_transaction_id # 0 /\ state.trigger = "simulation_cycle"
  THEN [active_transaction_id |-> 0, active_transaction_context |-> None,
        selected_offer |-> None, final_contract |-> None,
        received_offers |-> <<>>, trigger |-> "idle"]
  ELSE IF profile.agent_type = "household"
          /\ 10 * profile.current_energy_storage_kwh <= 3 * profile.max_capacity_kwh
       THEN [trigger |-> "start_bap_flow"]
       ELSE [trigger |-> "idle"]

supervisor_node(state) ==
  IF state.profile = None THEN KeyError ELSE
  LET profile == state.profile[1] IN
  IF state.active_transaction_id # 0 /\ state.trigger = "simulation_cycle"
  THEN [active_transaction_id |-> 0, active_transaction_context |-> None,
        selected_offer |-> None, final_contract |-> None,
        received_offers |-> <<>>, trigger |-> "idle"]
  ELSE IF profile.agent_type = "household"
          /\ 10 * profile.current_energy_storage_kwh < 3 * profile.max_capacity_kwh
       THEN IF state.active_transaction_id # 0
            THEN [trigger |-> "idle"]
            ELSE [trigger |-> "start_bap_flow"]
       ELSE IF profile.agent_type = "household"
               /\ 10 * profile.current_energy_storage_kwh > 7 * profile.max_capacity_kwh
            THEN [trigger |-> "idle"]
            ELSE [trigger |-> "idle"]

\* a variant of initiate_search_node that addresses the search to a seller
initiate_search_node_direct(state, tx, ts) ==
  IF state.profile = None THEN KeyError ELSE
  LET profile == state.profile[1]
      agent_url == HouseholdUrl(AgentNum(profile.agent_id))
      context == BecknContext("search", profile.agent_id, agent_url, tx, ts)
  IN [active_transaction_id |-> context.transaction_id,
      active_transaction_context |-> Some(context),
      outgoing_request |->
        Some([url |-> Url(HouseholdUrl(2), "search"),
              payload |-> [context |-> context, message |-> [intent |-> <<>>]]])]

initiate_search_node(state, tx, ts) ==
  IF state.profile = None THEN KeyError ELSE
  LET profile == state.profile[1]
      agent_url == HouseholdUrl(AgentNum(profile.agent_id))
      context == BecknContext("search", profile.agent_id, agent_url, tx, ts)
  IN [active_transaction_id |-> context.transaction_id,
      active_transaction_context |-> Some(context),
      outgoing_request |->
        Some([url |-> Url(GATEWAY_URL, "search"),
              payload |-> [context |-> context, message |-> [intent |-> <<>>]]])]

\* a variant of MinOffer: the last offer of least price
MinOffer_last(offers) ==
  LET i == CHOOSE i \in 1..Len(offers) :
             /\ \A j \in 1..Len(offers) : offers[i].price_per_kwh <= offers[j].price_per_kwh
             /\ \A j \in (i+1)..Len(offers) : offers[j].price_per_kwh > offers[i].price_per_kwh
  IN offers[i]

\* min(offers, key=lambda o: o.price_per_kwh): the first offer of least price
MinOffer(offers) ==
  LET i == CHOOSE i \in 1..Len(offers) :
             /\ \A j \in 1..Len(offers) : offers[i].price_per_kwh <= offers[j].price_per_kwh
             /\ \A j \in 1..(i-1) : offers[j].price_per_kwh > offers[i].price_per_kwh
  IN offers[i]

evaluate_offers_node(state) ==
  IF state.profile = None THEN [trigger |-> "search_failed"]
  ELSE LET offers == state.received_offers IN
    IF offers = <<>> THEN [trigger |-> "search_failed"]
    ELSE IF "active_transaction_context" \in state.unset THEN KeyError
    ELSE IF state.active_transaction_context = None THEN AttributeError
    ELSE LET best_offer == MinOffer(offers)
             bpp_uri == IF StartsWithUtility(best_offer.provider_id)
                        THEN UTILITY_URL
                        ELSE HouseholdUrl(AgentNum(best_offer.provider_id))
             context == [state.active_transaction_context[1] EXCEPT
                           !.action = "select",
                           !.bpp_id = best_offer.provider_id,
                           !.bpp_uri = bpp_uri]
         IN [selected_offer |-> Some(best_offer),
             active_transaction_context |-> Some(context),
             trigger |-> "selection_made"]

OrderRef(offer) == [order |-> [provider |-> offer.provider_id, items |-> <<offer.offer_id>>]]

send_select_node(state) ==
  IF state.profile = None THEN KeyError ELSE
  IF {"active_transaction_context", "selected_offer"} \cap state.unset # {}
  THEN KeyError ELSE
  IF state.selected_offer = None \/ state.active_transaction_context = None
  THEN AttributeError ELSE
  LET context == state.active_transaction_context[1]
      offer == state.selected_offer[1]
  IN [outgoing_request |->
        Some([url |-> Url(context.bpp_uri, "select"),
              payload |-> [context |-> context, message |-> OrderRef(offer)]])]

send_confirm_node(state) ==
  IF state.profile = None THEN KeyError ELSE
  IF "active_transaction_context" \in state.unset THEN KeyError ELSE
  IF state.selected_offer = None THEN [trigger |-> "transaction_failed"]
  ELSE IF state.active_transaction_context = None THEN AttributeError
  ELSE LET context == state.active_transaction_context[1] IN
       [outgoing_request |->
          Some([url |-> Url(context.bpp_uri, "confirm"),
                payload |-> [context |-> [context EXCEPT !.action = "confirm"],
                             message |-> OrderRef(state.selected_offer[1])]])]

\* a variant of process_bap_completion_node that credits the quantity twice
process_bap_completion_node_double(state) ==
  IF state.profile = None \/ "final_contract" \in state.unset THEN KeyError ELSE
  IF state.final_contract = None THEN AttributeError ELSE
  LET contract == state.final_contract[1]
      profile == state.profile[1]
  IN [profile |-> Some([profile EXCEPT !.current_energy_storage_kwh =
                                          @ + 2 * contract.agreed_quantity_kwh]),
      active_transaction_id |-> 0,
      active_transaction_context |-> None,
      selected_offer |-> None,
      final_contract |-> None,
      received_offers |-> <<>>]

process_bap_completion_node(state) ==
  IF state.profile = None \/ "final_contract" \in state.unset THEN KeyError ELSE
  IF state.final_contract = None THEN AttributeError ELSE
  LET contract == state.final_contract[1]
      profile == state.profile[1]
  IN [profile |-> Some([profile EXCEPT !.current_energy_storage_kwh =
                                          @ + contract.agreed_quantity_kwh]),
      active_transaction_id |-> 0,
      active_transaction_context |-> None,
      selected_offer |-> None,
      final_contract |-> None,
      received_offers |-> <<>>]

send_init_node(state) ==
  IF state.profile = None THEN KeyError ELSE
  IF "active_transaction_context" \in state.unset THEN KeyError ELSE
  IF state.selected_offer = None THEN [trigger |-> "transaction_failed"]
  ELSE IF state.active_transaction_context = None THEN AttributeError
  ELSE LET context == state.active_transaction_context[1] IN
       [outgoing_request |->
          Some([url |-> Url(context.bpp_uri, "init"),
                payload |-> [context |-> [context EXCEPT !.action = "init"],
                             message |-> OrderRef(state.selected_offer[1])]])]

\* a variant of process_init_node that leaves the buyer out of its reply
process_init_node_unsigned(state) ==
  IF state.profile = None THEN KeyError ELSE
  IF "active_transaction_context" \in state.unset THEN KeyError ELSE
  IF state.active_transaction_context = None THEN AttributeError ELSE
  LET context == [state.active_transaction_context[1] EXCEPT
                    !.action = "on_init", !.bap_id = ""] IN
  [outgoing_request |->
     Some([url |-> Url(context.bap_uri, "on_init"),
           payload |-> [context |-> context,
                        message |-> [order |-> [quote |-> 250]]]])]

process_init_node(state) ==
  IF state.profile = None THEN KeyError ELSE
  IF "active_transaction_context" \in state.unset THEN KeyError ELSE
  IF state.active_transaction_context = None THEN AttributeError ELSE
  LET context == [state.active_transaction_context[1] EXCEPT !.action = "on_init"] IN
  [outgoing_request |->
     Some([url |-> Url(context.bap_uri, "on_init"),
           payload |-> [context |-> context,
                        message |-> [order |-> [quote |-> 250]]]])]

\* a variant of formulate_offer_node whose households offer from half their capacity
formulate_offer_node_half(state, unavailable, offer_id, t) ==
  IF state.profile = None THEN KeyError ELSE
  IF unavailable THEN << >>
  ELSE IF "active_transaction_context" \in state.unset THEN KeyError
  ELSE LET profile == state.profile[1]
           in_context == state.active_transaction_context[1]
       IN
    IF profile.agent_type = "household"
       /\ 10 * profile.current_energy_storage_kwh < 5 * profile.max_capacity_kwh
    THEN << >>
    ELSE IF state.active_transaction_context = None THEN AttributeError
    ELSE LET qty == IF profile.agent_type = "household" THEN QtyHousehold ELSE QtyUtilityOffer
             price == IF profile.agent_type = "household" THEN PriceHousehold ELSE PriceUtility
             bpp_uri == IF profile.agent_type = "household"
                        THEN HouseholdUrl(AgentNum(profile.agent_id))
                        ELSE UTILITY_URL
             offer == EnergyOffer(offer_id, profile.agent_id, qty, price,
                                  t + OFFER_VALIDITY, t)[1]
             context == [in_context EXCEPT !.action = "on_search",
                                           !.bpp_id = profile.agent_id,
                                           !.bpp_uri = bpp_uri]
         IN [outgoing_request |->
               Some([url |-> Url(in_context.bap_uri, "on_search"),
                     payload |-> [context |-> context,
                                  message |-> [catalog |-> [items |-> <<offer>>]]]])]

\* unavailable: the outcome of random.random() < 0.3; offer_id: the fresh uuid;
\* t: datetime.now(timezone.utc) when the node runs
formulate_offer_node(state, unavailable, offer_id, t) ==
  IF state.profile = None THEN KeyError ELSE
  IF unavailable THEN << >>
  ELSE IF "active_transaction_context" \in state.unset THEN KeyError
  ELSE LET profile == state.profile[1]
           in_context == state.active_transaction_context[1]
       IN
    IF profile.agent_type = "household"
       /\ 10 * profile.current_energy_storage_kwh < 6 * profile.max_capacity_kwh
    THEN << >>
    ELSE IF state.active_transaction_context = None THEN AttributeError
    ELSE LET qty == IF profile.agent_type = "household" THEN QtyHousehold ELSE QtyUtilityOffer
             price == IF profile.agent_type = "household" THEN PriceHousehold ELSE PriceUtility
             bpp_uri == IF profile.agent_type = "household"
                        THEN HouseholdUrl(AgentNum(profile.agent_id))
                        ELSE UTILITY_URL
             offer == EnergyOffer(offer_id, profile.agent_id, qty, price,
                                  t + OFFER_VALIDITY, t)[1]
             context == [in_context EXCEPT !.action = "on_search",
                                           !.bpp_id = profile.agent_id,
                                           !.bpp_uri = bpp_uri]
         IN [outgoing_request |->
               Some([url |-> Url(in_context.bap_uri, "on_search"),
                     payload |-> [context |-> context,
                                  message |-> [catalog |-> [items |-> <<offer>>]]]])]

process_selection_node(state) ==
  IF state.profile = None THEN KeyError ELSE
  IF "active_transaction_context" \in state.unset THEN KeyError ELSE
  IF state.active_transaction_context = None THEN AttributeError ELSE
  LET context == [state.active_transaction_context[1] EXCEPT !.action = "on_select"] IN
  [outgoing_request |->
     Some([url |-> Url(context.bap_uri, "on_select"),
           payload |-> [context |-> context, message |-> [order |-> <<>>]]])]

\* a variant of process_confirmation_node that debits half of what the contract says
process_confirmation_node_half(state, contract_id, t) ==
  IF state.profile = None THEN KeyError ELSE
  IF "active_transaction_context" \in state.unset THEN KeyError ELSE
  IF state.active_transaction_context = None THEN AttributeError ELSE
  LET context == state.active_transaction_context[1]
      profile == state.profile[1]
      qty == IF profile.agent_type = "household" THEN QtyHousehold ELSE QtyContract
      price == IF profile.agent_type = "household" THEN PriceHousehold ELSE PriceUtility
      offer_stub == EnergyOffer(<<contract_id, "stub">>, profile.agent_id, qty, price,
                                t + STUB_VALIDITY, t)[1]
      contract == EnergyContract(contract_id, context.bap_id, profile.agent_id,
                                 qty, price, offer_stub)[1]
  IN [profile |-> Some([profile EXCEPT !.current_energy_storage_kwh =
                                          @ - (contract.agreed_quantity_kwh \div 2)]),
      outgoing_request |->
        Some([url |-> Url(context.bap_uri, "on_confirm"),
              payload |-> [context |-> [context EXCEPT !.action = "on_confirm"],
                           message |-> [order |-> contract]]]),
      active_transaction_id |-> 0,
      active_transaction_context |-> None,
      selected_offer |-> None,
      final_contract |-> None]

\* contract_id: the fresh uuid of the contract (the offer stub gets its own)
process_confirmation_node(state, contract_id, t) ==
  IF state.profile = None THEN KeyError ELSE
  IF "active_transaction_context" \in state.unset THEN KeyError ELSE
  IF state.active_transaction_context = None THEN AttributeError ELSE
  LET context == state.active_transaction_context[1]
      profile == state.profile[1]
      qty == IF profile.agent_type = "household" THEN QtyHousehold ELSE QtyContract
      price == IF profile.agent_type = "household" THEN PriceHousehold ELSE PriceUtility
      offer_stub == EnergyOffer(<<contract_id, "stub">>, profile.agent_id, qty, price,
                                t + STUB_VALIDITY, t)[1]
      contract == EnergyContract(contract_id, context.bap_id, profile.agent_id,
                                 qty, price, offer_stub)[1]
  IN [profile |-> Some([profile EXCEPT !.current_energy_storage_kwh =
                                          @ - contract.agreed_quantity_kwh]),
      outgoing_request |->
        Some([url |-> Url(context.bap_uri, "on_confirm"),
              payload |-> [context |-> [context EXCEPT !.action = "on_confirm"],
                           message |-> [order |-> contract]]]),
      active_transaction_id |-> 0,
      active_transaction_context |-> None,
      selected_offer |-> None,
      final_contract |-> None]


\* ------------------------------------------------------------------ state
VARIABLES
  store,       \* MemorySaver of each process: thread key -> latest checkpoint (key 0: simulation thread)
  tasks,       \* bag of invoke_and_dispatch calls scheduled and not yet started
  running,     \* bag of invoke_and_dispatch calls inside astream
  posts,       \* bag of transport calls in flight (client.post awaited)
  registry,    \* bpp_registry of the gateway
  started,     \* how far the start of each agent module got
  outside,     \* bag of the requests that parties outside the system still send
  nextTx,      \* number of transaction ids initiate_search allocated
  uuid,        \* number of offer/contract ids each agent allocated
  ticks,       \* simulation cycles the solar agent started
  now,         \* the time, in seconds
  failed,      \* transport calls to a serving process that failed so far
  log,         \* per transaction id, the actions of the requests the agents dispatched, in order
  credited,    \* bag of the contracts process_bap_completion credited, with the energy added
  debited,     \* set of the contracts process_confirmation debited, with the energy taken
  dropped,     \* transaction id and buyer of the requests of agents whose transport call failed
  limits       \* the bounds of the run

vars == <<store, tasks, running, posts, registry, started, outside, nextTx, uuid, ticks,
          now, failed, log, credited, debited, dropped, limits>>

SimKey == 0
Keys == SimKey..(MaxTx + 1)

Sim(a) == store[a][SimKey]
Energy(a) == Sim(a).profile[1].current_energy_storage_kwh

Capacity(a) ==
  IF a \in Households THEN MAX_CAPACITY_KWH
  ELSE IF a = S1 THEN SOLAR_CAPACITY_KWH ELSE UTILITY_CAPACITY_KWH

\* current_energy_storage_kwh each module passes: (INITIAL_SOC / 100) *
\* MAX_CAPACITY_KWH of a household (INITIAL_SOC 6.67, or 15 by default; 80, 63.33),
\* 2.0 of the solar agent, 999999 of the utility
InitialEnergy(a) ==
  IF a = H1 THEN {100, 225}
  ELSE IF a = H2 THEN {1200, 950}
  ELSE IF a = S1 THEN {SOLAR_ENERGY_KWH} ELSE {UTILITY_CAPACITY_KWH}

\* INITIAL_PROFILE of agent a's module, e the energy it passes: the
\* AgentProfile the module builds while it is loaded, or the ValidationError
\* that stops it
INITIAL_PROFILE(a, e) == AgentProfile(a, AgentType(a), e, Capacity(a))

\* whether the module of a gets past that line
Loads(a) == \A e \in InitialEnergy(a) : INITIAL_PROFILE(a, e) # ValidationError

\* the process listening at a url (None when nobody does)
Listener(url) ==
  IF \E a \in Agents : OwnUrl(a) = url /\ started[a] = "up"
  THEN Some(CHOOSE a \in Agents : OwnUrl(a) = url /\ started[a] = "up")
  ELSE None

\* invoke_and_dispatch of the module merges the profile of a transaction
\* thread into the simulation thread (solar/main.py has no such lines)
MergesProfile(a) == a # S1

\* the actions for which handle_beckn_request of the module puts the profile
\* and the context into the input
TakesProfile(a, action) == a # S1 \/ action \in {"search", "select", "confirm"}

One(x) == SetToBag({x})

Ran(nodes, n) == \E i \in 1..Len(nodes) : nodes[i] = n

\* what the surroundings did so far: failed transport calls, steps of time
Events == failed + (now \div TIME_STEP)

\* ------------------------------------------------------------ process start
\* the transport call invoke_and_dispatch or lifespan awaits; kind tells the
\* caller (a task, the cycle of the simulation loop, the start), profile is the
\* profile of final_state when the caller merges it afterwards
Post(a, key, kind, request, merge) ==
  [sender |-> a, key |-> key, kind |-> kind, url |-> request.url,
   payload |-> request.payload, profile |-> merge, rest |-> <<>>, answered |-> FALSE]

\* the memory of a process that has just started: agent_simulation_loop
\* before its first cycle, update_state(config, {"profile": INITIAL_PROFILE})
\* on a new MemorySaver
InitThreads(a, e) ==
  [k \in Keys |->
     IF k = SimKey THEN ApplyUpdate(EmptyState, [profile |-> INITIAL_PROFILE(a, e)])
     ELSE EmptyState]

\* a process that does not serve has no memory
NoThreads == [k \in Keys |-> EmptyState]

\* the memory of every process once the modules that load have started
InitStore ==
  [a \in Agents |->
     IF Loads(a) THEN InitThreads(a, CHOOSE e \in InitialEnergy(a) : TRUE) ELSE NoThreads]

\* an agent module is started: loading it builds INITIAL_PROFILE, and lifespan
\* posts the registration to the gateway
Start(a) ==
  /\ started[a] = "no"
  /\ IF ~Loads(a)
     THEN /\ started' = [started EXCEPT ![a] = "failed"]
          /\ posts' = posts
     ELSE /\ started' = [started EXCEPT ![a] = "starting"]
          /\ posts' = posts (+) One(Post(a, SimKey, "start",
                                         [url |-> Url(GATEWAY_URL, "register"),
                                          payload |-> [bpp_uri |-> OwnUrl(a)]], None))
  /\ UNCHANGED <<store, tasks, running, registry, outside, nextTx, uuid, ticks, now,
                 failed, log, credited, debited, dropped, limits>>

\* ---------------------------------------------------------------- handlers
\* payload.get("message", {}).get("catalog", {}).get("items", []), each item
\* through EnergyOffer.parse_obj at time t
ParseItems(items, t) ==
  IF \E i \in 1..Len(items) : ParseOffer(items[i], t) = ValidationError
  THEN ValidationError
  ELSE Some([i \in 1..Len(items) |-> ParseOffer(items[i], t)[1]])

\* handle_beckn_request of process a: the background tasks it adds.  The
\* offers of an on_search and the contract of an on_confirm are parsed first;
\* when that raises, no task is added (the solar handler fails, the utility's
\* answers {"error": ...}).  The profile is read from the simulation thread
\* when the request is handled, INITIAL_PROFILE when the thread has none.
handle_beckn_request(a, action, payload) ==
  LET context == payload.context
      base == [trigger |-> "incoming_" \o action]
      parsed == IF action = "on_search"
                THEN ParseItems(payload.message.catalog.items, now)
                ELSE IF action = "on_confirm"
                     THEN ParseContract(payload.message.order, now)
                     ELSE Some(<<>>)
      extra == IF action = "on_search"
               THEN [received_offers |-> parsed[1]]
               ELSE IF action = "on_confirm"
                    THEN [final_contract |-> parsed]
                    ELSE << >>
      profile == IF Sim(a).profile = None
                 THEN INITIAL_PROFILE(a, CHOOSE e \in InitialEnergy(a) : TRUE)
                 ELSE Sim(a).profile
      fixed == IF TakesProfile(a, action)
               THEN [profile |-> profile,
                     active_transaction_context |-> Some(context)]
               ELSE << >>
  IN IF parsed = ValidationError
     THEN EmptyBag
     ELSE One([agent |-> a, key |-> context.transaction_id,
               input |-> [k \in DOMAIN base \cup DOMAIN extra \cup DOMAIN fixed |->
                           IF k \in DOMAIN fixed THEN fixed[k]
                           ELSE IF k \in DOMAIN extra THEN extra[k] ELSE base[k]]])

\* a variant of register_bpp that appends whatever it is given
register_bpp_always(reg, bpp_uri) == Append(reg, bpp_uri)

\* register_bpp: bpp_registry after POST /register
register_bpp(reg, bpp_uri) ==
  IF bpp_uri # "" /\ ~(\E i \in 1..Len(reg) : reg[i] = bpp_uri)
  THEN Append(reg, bpp_uri)
  ELSE reg

\* forward_request to the first of uris; broadcast_search's background tasks
\* run one after the other, in registry order
Forward(uris, payload) ==
  [sender |-> "gateway", key |-> SimKey, kind |-> "forward",
   url |-> Url(Head(uris), "search"), payload |-> payload, profile |-> None,
   rest |-> Tail(uris), answered |-> FALSE]

NextForward(p) ==
  IF p.sender = "gateway" /\ p.rest # <<>> THEN One(Forward(p.rest, p.payload)) ELSE EmptyBag

\* whether somebody answers at the url
Serves(url) == url \in {GATEWAY_URL, OUTSIDE_URL} \/ Listener(url) # None

\* the request handler behind url, given a request: the background tasks it
\* adds, the forwards the gateway starts and the registry it leaves.  The
\* gateway has the routes /register and /search and no other; a party outside
\* the system answers and that is all.
Handler(url, payload) ==
  IF url.base = GATEWAY_URL
  THEN [tasks |-> EmptyBag,
        forwards |-> IF url.action = "search" /\ registry # <<>>
                     THEN One(Forward(registry, payload)) ELSE EmptyBag,
        registry |-> IF url.action = "register"
                     THEN register_bpp(registry, payload.bpp_uri) ELSE registry]
  ELSE [tasks |-> IF Listener(url.base) # None
                  THEN handle_beckn_request(Listener(url.base)[1], url.action, payload)
                  ELSE EmptyBag,
        forwards |-> EmptyBag,
        registry |-> registry]

\* ---------------------------------------------------------------- graph run
\* the node at of the compiled graph run on state: the channel updates it
\* returns.  tx is the fresh transaction id, ts the time, unavailable the
\* outcome of random.random() < 0.3, id the fresh uuid.
NodeUpdate(at, state, tx, ts, unavailable, id) ==
  CASE at = "entrypoint" -> << >>
    [] at = "supervisor" -> supervisor_node(state)
    [] at = "initiate_search" -> initiate_search_node(state, tx, ts)
    [] at = "evaluate_offers" -> evaluate_offers_node(state)
    [] at = "send_select" -> send_select_node(state)
    [] at = "send_init" -> send_init_node(state)
    [] at = "send_confirm" -> send_confirm_node(state)
    [] at = "process_bap_completion" -> process_bap_completion_node(state)
    [] at = "formulate_offer" -> formulate_offer_node(state, unavailable, id, ts)
    [] at = "process_selection" -> process_selection_node(state)
    [] at = "process_init" -> process_init_node(state)
    [] at = "process_confirmation" -> process_confirmation_node(state, id, ts)

\* the edges of the graph: the node that follows at, given the state at left
NextNode(at, state) ==
  CASE at = "entrypoint" -> route_trigger(state)
    [] at = "supervisor" -> route_from_supervisor(state)
    [] at = "evaluate_offers" -> route_after_evaluation(state)
    [] OTHER -> "__end__"

\* the nodes of the graph the module of a compiles: the solar agent's has
\* neither send_init nor process_init
GraphNodes(a) ==
  {"entrypoint", "supervisor", "initiate_search", "evaluate_offers", "send_select",
   "send_confirm", "process_bap_completion", "formulate_offer", "process_selection",
   "process_confirmation", "__end__"}
    \cup (IF a = S1 THEN {} ELSE {"send_init", "process_init"})

\* where the run of a goes when its router names node: to that node, or, when
\* the graph has no such node, either to its end or nowhere (the run raises,
\* and invoke_and_dispatch with it)
Followers(a, node) ==
  IF node \in GraphNodes(a) THEN {node} ELSE {"__end__", "raised"}

\* invoke_and_dispatch(input, config) of process a under thread key enters
\* astream: the run loads the latest checkpoint of the thread, applies the
\* input to it and stores the result as a checkpoint; its first node is the
\* entry point.  The running call keeps the checkpoint it loaded, the run's
\* own values, the nodes it ran, the request its nodes returned (made) and the
\* uuid it drew.
Invoke(kind, a, key, input) ==
  /\ BagCardinality(running) < limits.running
  /\ LET own == ApplyUpdate(store[a][key], input) IN
       /\ running' = running (+) One([kind |-> kind, agent |-> a, key |-> key,
                                      input |-> input,
                                      loaded |-> store[a][key], own |-> own,
                                      at |-> "entrypoint", nodes |-> <<>>,
                                      made |-> None, id |-> <<>>])
       /\ store' = [store EXCEPT ![a][key] = own]

\* the simulation loop of the solar agent awaits nothing: neither a graph run
\* nor a transport call of its cycle is under way
LoopIdle(a) ==
  /\ \A r \in BagToSet(running) : ~(r.agent = a /\ r.kind = "tick")
  /\ \A p \in BagToSet(posts) : ~(p.sender = a /\ p.key = SimKey)

\* one cycle of agent_simulation_loop of the solar agent starts: the decision
\* cycle enters astream
Tick(a) ==
  /\ a = S1
  /\ started[a] = "up"
  /\ ticks < limits.ticks
  /\ LoopIdle(a)
  /\ Invoke("tick", a, SimKey, [trigger |-> "simulation_cycle"])
  /\ ticks' = ticks + 1
  /\ UNCHANGED <<tasks, posts, registry, started, outside, nextTx, uuid, now, failed,
                 log, credited, debited, dropped, limits>>

\* a scheduled invoke_and_dispatch starts
RunTask(t) ==
  /\ BagIn(t, tasks)
  /\ Invoke("task", t.agent, t.key, t.input)
  /\ tasks' = tasks (-) One(t)
  /\ UNCHANGED <<posts, registry, started, outside, nextTx, uuid, ticks, now, failed,
                 log, credited, debited, dropped, limits>>

\* one superstep of the graph run of r: the node the run is at runs on the
\* run's own values, its updates are applied to them and the result is stored
\* as the latest checkpoint of the thread; when the node raises, the run ends
\* with the exception and stores nothing
Superstep(r) ==
  /\ BagIn(r, running)
  /\ r.at \notin {"__end__", "raised"}
  /\ r.at = "initiate_search" => nextTx < limits.tx
  /\ \E unavailable \in IF r.at = "formulate_offer" THEN BOOLEAN ELSE {FALSE} :
       LET id == <<r.agent, uuid[r.agent] + 1>>
           upd == NodeUpdate(r.at, r.own, nextTx + 1, now, unavailable, id)
       IN IF "exception" \in DOMAIN upd
          THEN /\ running' = (running (-) One(r)) (+) One([r EXCEPT !.at = "raised"])
               /\ UNCHANGED <<store, uuid, credited, debited, nextTx>>
          ELSE
       LET own == ApplyUpdate(r.own, upd)
           makes == \/ r.at = "process_confirmation"
                    \/ r.at = "formulate_offer" /\ "outgoing_request" \in DOMAIN upd
       IN /\ \E next \in Followers(r.agent, NextNode(r.at, own)) :
               running' = (running (-) One(r))
                          (+) One([r EXCEPT !.own = own,
                                            !.at = next,
                                            !.nodes = IF r.at = "entrypoint" THEN @
                                                      ELSE Append(@, r.at),
                                            !.made = IF "outgoing_request" \in DOMAIN upd
                                                     THEN upd.outgoing_request ELSE @,
                                            !.id = IF makes THEN id ELSE @])
          /\ store' = [store EXCEPT ![r.agent][r.key] = own]
          /\ uuid' = IF makes THEN [uuid EXCEPT ![r.agent] = @ + 1] ELSE uuid
          /\ credited' = IF r.at = "process_bap_completion"
                         THEN credited (+) One([agent |-> r.agent, tx |-> r.key,
                                                contract_id |-> r.own.final_contract[1].contract_id,
                                                qty |-> own.profile[1].current_energy_storage_kwh
                                                        - r.own.profile[1].current_energy_storage_kwh])
                         ELSE credited
          /\ debited' = IF r.at = "process_confirmation"
                        THEN debited \cup {[agent |-> r.agent, tx |-> r.key, contract_id |-> id,
                                             qty |-> r.own.profile[1].current_energy_storage_kwh
                                                     - own.profile[1].current_energy_storage_kwh]}
                        ELSE debited
          /\ nextTx' = IF r.at = "initiate_search" THEN nextTx + 1 ELSE nextTx
  /\ UNCHANGED <<tasks, posts, registry, started, outside, ticks, now, failed, log, dropped,
                 limits>>

\* lines 73 to 77 of the solar agent's cycle: the profile of the simulation
\* thread with min(max_capacity_kwh, current_energy_storage_kwh + 0.5)
Generated(profile) ==
  [profile EXCEPT !.current_energy_storage_kwh =
     IF @ + SOLAR_GENERATION > profile.max_capacity_kwh
     THEN profile.max_capacity_kwh ELSE @ + SOLAR_GENERATION]

\* the caller's code after the transport call, or after the harvest when
\* nothing was sent: a task of a module that merges writes the profile of
\* final_state into the simulation thread; the solar agent's cycle goes on
\* with its generation
Continue(s, a, kind, merge) ==
  IF merge # None
  THEN [s EXCEPT ![a][SimKey] = ApplyUpdate(@, [profile |-> merge])]
  ELSE IF kind = "tick"
       THEN [s EXCEPT ![a][SimKey] =
               ApplyUpdate(@, [profile |-> Some(Generated(@.profile[1]))])]
       ELSE s

\* invoke_and_dispatch after astream: final_state is the latest checkpoint of
\* the thread; a request found there is cleared in the thread and handed to
\* the transport; with nothing to send the caller goes on at once
Harvest(a, key, kind) ==
  LET final == store[a][key]
      request == final.outgoing_request
      merge == IF key # SimKey /\ MergesProfile(a) THEN final.profile ELSE None
  IN /\ store' = IF request # None
                 THEN [store EXCEPT ![a][key] = ApplyUpdate(@, [outgoing_request |-> None])]
                 ELSE Continue(store, a, kind, merge)
     /\ posts' = IF request # None
                 THEN posts (+) One(Post(a, key, kind, request[1], merge))
                 ELSE posts
     /\ log' = IF request # None
               THEN [log EXCEPT ![request[1].payload.context.transaction_id] =
                                   Append(@, request[1].url.action)]
               ELSE log

\* the stream of r has ended: invoke_and_dispatch goes on after astream, or
\* ends with the exception of the run
Dispatch(r) ==
  /\ BagIn(r, running)
  /\ r.at \in {"__end__", "raised"}
  /\ running' = running (-) One(r)
  /\ IF r.at = "__end__"
     THEN Harvest(r.agent, r.key, r.kind)
     ELSE UNCHANGED <<store, posts, log>>
  /\ UNCHANGED <<tasks, registry, started, outside, nextTx, uuid, ticks, now, failed,
                 credited, debited, dropped, limits>>

Answered(p) == [p EXCEPT !.answered = TRUE]

\* the transport calls answered whose sender has not resumed yet
Lagging == Cardinality({p \in BagToSet(posts) : p.answered})

\* the transport call reaches its destination, whose request handler runs and
\* answers
Deliver(p) ==
  /\ BagIn(p, posts)
  /\ ~p.answered
  /\ Lagging < limits.lag
  /\ Serves(p.url.base)
  /\ LET h == Handler(p.url, p.payload) IN
       /\ tasks' = tasks (+) h.tasks
       /\ posts' = ((posts (-) One(p)) (+) One(Answered(p))) (+) h.forwards
       /\ registry' = h.registry
  /\ UNCHANGED <<store, running, started, outside, nextTx, uuid, ticks, now, failed,
                 log, credited, debited, dropped, limits>>

\* a request of a party outside the system reaches its destination
Arrive(q) ==
  /\ BagIn(q, outside)
  /\ Serves(q.url.base)
  /\ LET h == Handler(q.url, q.payload) IN
       /\ tasks' = tasks (+) h.tasks
       /\ posts' = posts (+) h.forwards
       /\ registry' = h.registry
  /\ outside' = outside (-) One(q)
  /\ UNCHANGED <<store, running, started, nextTx, uuid, ticks, now, failed,
                 log, credited, debited, dropped, limits>>

\* the sender's code after the awaited transport call, answered (ok) or
\* failed: lifespan goes on to the simulation loop, whose first statement
\* initialises the simulation thread, or ends the start with the exception;
\* invoke_and_dispatch goes on with the merge
Resume(p, ok) ==
  /\ store' = IF p.kind = "start"
              THEN IF ok
                   THEN [store EXCEPT ![p.sender] =
                           InitThreads(p.sender, CHOOSE e \in InitialEnergy(p.sender) : TRUE)]
                   ELSE store
              ELSE IF p.sender \in Agents
                   THEN Continue(store, p.sender, p.kind, p.profile)
                   ELSE store
  /\ started' = IF p.kind = "start"
                THEN [started EXCEPT ![p.sender] = IF ok THEN "up" ELSE "failed"]
                ELSE started

\* the answer is back at the sender, whose code after the await runs
Return(p) ==
  /\ BagIn(p, posts)
  /\ p.answered
  /\ posts' = (posts (-) One(p)) (+) NextForward(p)
  /\ Resume(p, TRUE)
  /\ UNCHANGED <<tasks, running, registry, outside, nextTx, uuid, ticks, now, failed,
                 log, credited, debited, dropped, limits>>

\* a variant of PostFail that leaves the failed call in flight, to be made again
PostFail_retry(p) ==
  /\ BagIn(p, posts)
  /\ ~p.answered
  /\ Serves(p.url.base) => failed < limits.fail /\ Events < limits.events
  /\ posts' = posts (+) NextForward(p)
  /\ Resume(p, FALSE)
  /\ failed' = IF Serves(p.url.base) THEN failed + 1 ELSE failed
  /\ dropped' = IF p.sender \in Agents /\ p.kind # "start"
                THEN dropped \cup {[tx |-> p.payload.context.transaction_id,
                                      buyer |-> p.payload.context.bap_id]}
                ELSE dropped
  /\ UNCHANGED <<tasks, running, registry, outside, nextTx, uuid, ticks, now,
                 log, credited, debited, limits>>

\* httpx.RequestError: nobody serves at the url, or the call fails on its
\* way; invoke_and_dispatch and forward_request log it and drop the request
PostFail(p) ==
  /\ BagIn(p, posts)
  /\ ~p.answered
  /\ Serves(p.url.base) => failed < limits.fail /\ Events < limits.events
  /\ posts' = (posts (-) One(p)) (+) NextForward(p)
  /\ Resume(p, FALSE)
  /\ failed' = IF Serves(p.url.base) THEN failed + 1 ELSE failed
  /\ dropped' = IF p.sender \in Agents /\ p.kind # "start"
                THEN dropped \cup {[tx |-> p.payload.context.transaction_id,
                                      buyer |-> p.payload.context.bap_id]}
                ELSE dropped
  /\ UNCHANGED <<tasks, running, registry, outside, nextTx, uuid, ticks, now,
                 log, credited, debited, limits>>

\* the time goes on by TIME_STEP seconds
Pass ==
  /\ now + TIME_STEP <= limits.now
  /\ Events < limits.events
  /\ now' = now + TIME_STEP
  /\ UNCHANGED <<store, tasks, running, posts, registry, started, outside, nextTx, uuid,
                 ticks, failed, log, credited, debited, dropped, limits>>

\* ------------------------------------------------------------ initial states
\* the bookkeeping every initial state shares
InitRest ==
  /\ tasks = EmptyBag /\ running = EmptyBag /\ posts = EmptyBag
  /\ nextTx = 0
  /\ uuid = [a \in Agents |-> 0]
  /\ ticks = 0
  /\ now = 0
  /\ failed = 0
  /\ log = [t \in 1..(MaxTx + 1) |-> <<>>]
  /\ credited = EmptyBag
  /\ debited = {}
  /\ dropped = {}

\* every module was started: those that load serve, their simulation loops
\* initialised; the others stopped
InitServing ==
  /\ started = [a \in Agents |-> IF Loads(a) THEN "up" ELSE "failed"]
  /\ store = InitStore

\* the bounds of a run: transaction ids, cycles, failed transport calls; the
\* time stands still
Limits(tx, cycles, fail) ==
  [tx |-> tx, ticks |-> cycles, fail |-> fail, now |-> 0, lag |-> MaxLag,
   events |-> MaxEvents, running |-> MaxRunning]

\* a request a party outside the system sends
Request(base, action, payload) == [url |-> Url(base, action), payload |-> payload]

\* a search of transaction tx in the name of the buyer bap_id at bap_uri
Search(tx, bap_id, bap_uri) ==
  Request(GATEWAY_URL, "search",
          [context |-> BecknContext("search", bap_id, bap_uri, tx, 0),
           message |-> [intent |-> <<>>]])

\* the utility and the solar agent registered at the gateway, in either
\* order; a search naming the utility as buyer is on its way to the gateway
Init ==
  /\ InitServing
  /\ registry \in {<<UTILITY_URL, SOLAR_URL>>, <<SOLAR_URL, UTILITY_URL>>}
  /\ outside = One(Search(1, U1, UTILITY_URL))
  /\ limits = [Limits(MaxTx, 0, MaxFail) EXCEPT !.now = MaxNow]
  /\ InitRest

Next ==
  \/ \E t \in BagToSet(tasks) : RunTask(t)
  \/ \E r \in BagToSet(running) : Superstep(r)
  \/ \E r \in BagToSet(running) : Dispatch(r)
  \/ \E p \in BagToSet(posts) : Deliver(p)
  \/ \E p \in BagToSet(posts) : Return(p)
  \/ \E p \in BagToSet(posts) : PostFail(p)
  \/ \E q \in BagToSet(outside) : Arrive(q)
  \/ Pass

Spec == Init /\ [][Next]_vars

\* ------------------------------------------------ requests from outside
\* Requests a party outside the system sends to the utility agent or to the
\* solar agent: every action of the protocol, for transaction 1.  The requests
\* a seller gets name the outside party as buyer; the callbacks a buyer gets
\* name the agent as buyer and come with a catalog drawn from OfferLists or
\* with a contract.
NodePrices == {15, 20, 25}
MaxOffers == 3

NodeProvider(i) == IF i = 2 THEN U1 ELSE H2

\* the catalogs of an on_search payload, every offer made at time 0
OfferLists ==
  UNION {{[i \in 1..n |-> OfferFields(<<"offer", i>>, NodeProvider(i), QtyHousehold, f[i],
                                      OFFER_VALIDITY)] :
            f \in [1..n -> NodePrices]} : n \in 0..MaxOffers}

\* the context of a request of transaction tx the seller bpp gets or sends
SellerContext(action, tx, bap_id, bap_uri, bpp) ==
  [BecknContext(action, bap_id, bap_uri, tx, 0) EXCEPT
     !.bpp_id = IF action = "search" THEN "" ELSE bpp,
     !.bpp_uri = IF action = "search" THEN "" ELSE OwnUrl(bpp)]

\* a contract of seller bpp with bap as buyer, made at time 0
OutsideContract(bap, bpp) ==
  ContractFields(<<bpp, 1>>, bap, bpp, QtyContract, PriceUtility,
                 OfferFields(<<<<bpp, 1>>, "stub">>, bpp, QtyContract, PriceUtility,
                             STUB_VALIDITY))

\* the requests of transaction tx a buyer outside sends to the seller a
SellerRequestsTo(a, tx) ==
  {Request(OwnUrl(a), "search",
           [context |-> SellerContext("search", tx, OUTSIDE_ID, OUTSIDE_URL, a),
            message |-> [intent |-> <<>>]])}
  \cup {Request(OwnUrl(a), action,
                [context |-> SellerContext(action, tx, OUTSIDE_ID, OUTSIDE_URL, a),
                 message |-> OrderRef(OfferFields(<<"offer", 1>>, a, QtyUtilityOffer,
                                                  PriceUtility, OFFER_VALIDITY))]) :
          action \in {"select", "init", "confirm"}}

SellerRequestsOf(tx) == SellerRequestsTo(U1, tx)

SellerRequests == SellerRequestsOf(1)

\* the on_search callbacks of transaction 1 a seller outside sends to a
CatalogRequestsTo(a) ==
  {Request(OwnUrl(a), "on_search",
           [context |-> SellerContext("on_search", 1, a, OwnUrl(a), H2),
            message |-> [catalog |-> [items |-> offers]]]) : offers \in OfferLists}

CatalogRequests == CatalogRequestsTo(U1)

\* the other callbacks of transaction 1 a seller outside sends to a
BuyerRequestsTo(a) ==
  {Request(OwnUrl(a), "on_select",
           [context |-> SellerContext("on_select", 1, a, OwnUrl(a), H2),
            message |-> [order |-> <<>>]]),
   Request(OwnUrl(a), "on_init",
           [context |-> SellerContext("on_init", 1, a, OwnUrl(a), H2),
            message |-> [order |-> [quote |-> 250]]]),
   Request(OwnUrl(a), "on_confirm",
           [context |-> SellerContext("on_confirm", 1, a, OwnUrl(a), H2),
            message |-> [order |-> OutsideContract(a, H2)]]),
   Request(OwnUrl(a), "on_status",
           [context |-> SellerContext("on_status", 1, a, OwnUrl(a), H2),
            message |-> <<>>])}

BuyerRequests == BuyerRequestsTo(U1)

\* the catalogs of one offer
SingleOffers == {q \in CatalogRequests : Len(q.payload.message.catalog.items) = 1}

\* the catalogs of at most one offer
SmallCatalogsTo(a) ==
  {q \in CatalogRequestsTo(a) : Len(q.payload.message.catalog.items) <= 1}

\* the agents that serve
Serving == {U1, S1}

\* the utility and the solar agent serve; one request from outside, or two
\* of them (the same one twice included; of one transaction, or a callback of
\* one and a seller's request of another), are on their way to one of them
InitRequests ==
  /\ InitServing
  /\ registry = <<UTILITY_URL, SOLAR_URL>>
  /\ \E a \in Serving :
       \/ \E q \in SellerRequestsTo(a, 1) \cup CatalogRequestsTo(a) \cup BuyerRequestsTo(a) :
            outside = One(q)
       \/ \E q1, q2 \in SellerRequestsTo(a, 1) \cup SmallCatalogsTo(a) \cup BuyerRequestsTo(a) :
            outside = One(q1) (+) One(q2)
       \/ \E q1 \in BuyerRequestsTo(a), q2 \in SellerRequestsTo(a, 2) :
            outside = One(q1) (+) One(q2)
  /\ limits = [Limits(MaxTx, 0, MaxFail) EXCEPT
                 !.now = MaxNow, !.running = RequestsRunning, !.events = RequestsEvents]
  /\ InitRest

NextRequests ==
  \/ \E t \in BagToSet(tasks) : RunTask(t)
  \/ \E r \in BagToSet(running) : Superstep(r)
  \/ \E r \in BagToSet(running) : Dispatch(r)
  \/ \E p \in BagToSet(posts) : Deliver(p)
  \/ \E p \in BagToSet(posts) : Return(p)
  \/ \E p \in BagToSet(posts) : PostFail(p)
  \/ \E q \in BagToSet(outside) : Arrive(q)
  \/ Pass

SpecRequests == InitRequests /\ [][NextRequests]_vars

\* ------------------------------------------------------------- the start-up
\* a request to the gateway for an action it has no route for
Stray(action) ==
  Request(GATEWAY_URL, action,
          [context |-> SellerContext(action, 1, OUTSIDE_ID, OUTSIDE_URL, U1),
           message |-> [order |-> <<>>]])

\* a registration sent to the gateway from outside
Registration(bpp_uri) == Request(GATEWAY_URL, "register", [bpp_uri |-> bpp_uri])

\* no agent module was started yet and the registry of the gateway is empty;
\* from outside come a search in the name of an outside buyer and one more
\* request to the gateway: a registration of the utility's uri, or a select
InitGateway ==
  /\ started = [a \in Agents |-> "no"]
  /\ store = [a \in Agents |-> NoThreads]
  /\ registry = <<>>
  /\ \E q \in {Stray("select"), Registration(UTILITY_URL)} :
       outside = One(Search(1, OUTSIDE_ID, OUTSIDE_URL)) (+) One(q)
  /\ limits = [Limits(MaxTx, GatewayTicks, MaxFail) EXCEPT !.events = GatewayEvents]
  /\ InitRest

NextGateway ==
  \/ \E a \in Agents : Start(a)
  \/ Tick(S1)
  \/ \E t \in BagToSet(tasks) : RunTask(t)
  \/ \E r \in BagToSet(running) : Superstep(r)
  \/ \E r \in BagToSet(running) : Dispatch(r)
  \/ \E p \in BagToSet(posts) : Deliver(p)
  \/ \E p \in BagToSet(posts) : Return(p)
  \/ \E p \in BagToSet(posts) : PostFail(p)
  \/ \E q \in BagToSet(outside) : Arrive(q)

SpecGateway == InitGateway /\ [][NextGateway]_vars

\* ----------------------------------------------- node functions on drawn inputs
\* The node functions, the graph and invoke_and_dispatch applied to inputs
\* drawn from bounded sets.  The processes are those of Init; one call
\* invoke_and_dispatch(input, config) of the utility module is scheduled
\* whose input is drawn: the values of a decision cycle, or of a search
\* received, with a profile of each agent_type the node functions tell apart,
\* at the energies around their thresholds, with or without an active
\* transaction as initiate_search records it.  Or a request arrives from
\* outside, as in SpecRequests.
NodeTypes == {"household", "solar", "utility"}
NodeEnergies == {0, 449, 450, 451, 899, 900, 1050, 1051, 1500}

\* the agent_id that goes with an agent_type
NodeAgent(type) == IF type = "household" THEN H1 ELSE IF type = "solar" THEN S1 ELSE U1

\* the values initiate_search_node returned for transaction tx of the agent
\* with that profile
Searching(profile, tx) ==
  [active_transaction_id |-> tx,
   active_transaction_context |->
     Some(BecknContext("search", profile.agent_id,
                       HouseholdUrl(AgentNum(profile.agent_id)), tx, 0))]

\* invoke_and_dispatch({"trigger": "simulation_cycle", ...}, config) under
\* the simulation thread, scheduled
Cycle(values) ==
  [agent |-> U1, key |-> SimKey, input |-> [trigger |-> "simulation_cycle"] @@ values]

\* invoke_and_dispatch for a search of transaction 1 received from a buyer
\* outside, scheduled as handle_beckn_request does, the profile drawn
SearchReceived(profile) ==
  [agent |-> U1, key |-> 1,
   input |-> [trigger |-> "incoming_search", profile |-> Some(profile),
              active_transaction_context |->
                Some(SellerContext("search", 1, OUTSIDE_ID, OUTSIDE_URL, U1))]]

InitNodes ==
  /\ InitServing
  /\ registry = <<UTILITY_URL, SOLAR_URL>>
  /\ \/ /\ outside = EmptyBag
        /\ \E type \in NodeTypes, energy \in NodeEnergies, active \in BOOLEAN :
             LET profile == ProfileFields(NodeAgent(type), type, energy, MAX_CAPACITY_KWH)
                 values == IF active
                           THEN [profile |-> Some(profile)] @@ Searching(profile, MaxTx + 1)
                           ELSE [profile |-> Some(profile)]
             IN \/ tasks = One(Cycle(values))
                \/ ~active /\ tasks = One(SearchReceived(profile))
     \/ /\ tasks = EmptyBag
        /\ \E q \in SellerRequests \cup BuyerRequests \cup SingleOffers : outside = One(q)
  /\ limits = [Limits(MaxTx, 0, 0) EXCEPT !.running = RequestsRunning]
  /\ running = EmptyBag /\ posts = EmptyBag
  /\ nextTx = 0
  /\ uuid = [a \in Agents |-> 0]
  /\ ticks = 0
  /\ now = 0
  /\ failed = 0
  /\ log = [t \in 1..(MaxTx + 1) |-> <<>>]
  /\ credited = EmptyBag
  /\ debited = {}
  /\ dropped = {}

NextNodes ==
  \/ \E q \in BagToSet(outside) : Arrive(q)
  \/ \E t \in BagToSet(tasks) : RunTask(t)
  \/ \E r \in BagToSet(running) : Superstep(r)
  \/ \E r \in BagToSet(running) : Dispatch(r)
  \/ \E p \in BagToSet(posts) : Deliver(p)
  \/ \E p \in BagToSet(posts) : Return(p)
  \/ \E p \in BagToSet(posts) : PostFail(p)

SpecNodes == InitNodes /\ [][NextNodes]_vars

\* the same runs, every process going on with what it has to do: the event
\* loops run on, a request sent arrives
SpecDeploy == InitGateway /\ [][NextGateway]_vars /\ WF_vars(NextGateway)

\* ------------------------------------------------------------ one purchase
\* The utility alone is registered at the gateway and a search naming it as
\* buyer is on its way; no transport call fails, every process goes on with
\* what it has to do, and the time may go on meanwhile.
InitPurchase ==
  /\ InitServing
  /\ registry = <<UTILITY_URL>>
  /\ outside = One(Search(1, U1, UTILITY_URL))
  /\ limits = [Limits(MaxTx, 0, 0) EXCEPT !.now = MaxNow]
  /\ InitRest

Work ==
  \/ \E t \in BagToSet(tasks) : RunTask(t)
  \/ \E r \in BagToSet(running) : Superstep(r)
  \/ \E r \in BagToSet(running) : Dispatch(r)
  \/ \E p \in BagToSet(posts) : Deliver(p)
  \/ \E p \in BagToSet(posts) : Return(p)
  \/ \E q \in BagToSet(outside) : Arrive(q)

NextPurchase == Work \/ Pass

SpecPurchase == InitPurchase /\ [][NextPurchase]_vars /\ WF_vars(Work)

\* ------------------------------------------------------------ a second seller
\* The same purchase, with a seller outside the system that answers the
\* search with an offer of its own; transport calls fail where nobody serves.
InitMarket ==
  /\ InitServing
  /\ registry = <<UTILITY_URL>>
  /\ \E q \in SingleOffers : outside = One(Search(1, U1, UTILITY_URL)) (+) One(q)
  /\ limits = Limits(MaxTx, 0, 0)
  /\ InitRest

NextMarket ==
  \/ \E t \in BagToSet(tasks) : RunTask(t)
  \/ \E r \in BagToSet(running) : Superstep(r)
  \/ \E r \in BagToSet(running) : Dispatch(r)
  \/ \E p \in BagToSet(posts) : Deliver(p)
  \/ \E p \in BagToSet(posts) : Return(p)
  \/ \E p \in BagToSet(posts) : PostFail(p)
  \/ \E q \in BagToSet(outside) : Arrive(q)

SpecMarket == InitMarket /\ [][NextMarket]_vars

\* the same runs, every process going on with what it has to do
SpecStall == InitMarket /\ [][NextMarket]_vars /\ WF_vars(NextMarket)

\* ------------------------------------------------------------------ claims
\* nothing is scheduled, running or in flight
Quiescent == tasks = EmptyBag /\ running = EmptyBag /\ posts = EmptyBag /\ outside = EmptyBag

IsPrefix(s, t) == Len(s) <= Len(t) /\ \A i \in 1..Len(s) : s[i] = t[i]

\* the step from the unprimed to the primed state is a superstep of the
\* running call r, which leaves it as r2
Stepped(r, r2) ==
  /\ BagIn(r, running)
  /\ r.at # "__end__"
  /\ r2 # r
  /\ r2.agent = r.agent /\ r2.key = r.key /\ r2.input = r.input
  /\ r2.nodes = IF r.at = "entrypoint" THEN r.nodes ELSE Append(r.nodes, r.at)
  /\ running' = (running (-) One(r)) (+) One(r2)

\* the step is the one in which invoke_and_dispatch of the running call r
\* goes on after its stream (Dispatch)
Ended(r) == BagIn(r, running) /\ r.at = "__end__" /\ running' = running (-) One(r)

\* the step is the one in which invoke_and_dispatch of the running call r
\* goes on after its stream or ends with the exception of its run
Finished(r) ==
  BagIn(r, running) /\ r.at \in {"__end__", "raised"} /\ running' = running (-) One(r)

\* the transport calls this step starts
NewPosts == {p \in BagToSet(posts') : CopiesIn(p, posts') > CopiesIn(p, posts) /\ ~p.answered}

\* C1: in every reachable state the durable (simulation-scoped) profile of
\* every agent that serves satisfies 0 <= current_energy_storage_kwh <=
\* max_capacity_kwh.
C1_EnergyWithinCapacity ==
  \A a \in Agents :
    Sim(a).profile # None =>
      /\ 0 <= Energy(a)
      /\ Energy(a) <= Sim(a).profile[1].max_capacity_kwh

Lifecycle ==
  <<"search", "on_search", "select", "on_select", "init", "on_init", "confirm", "on_confirm">>

\* C2: once the household Buyer (1.0 of 15.0 kWh) and the household Seller
\* (12.0 of 15.0 kWh) were started, the requests search, on_search, select,
\* on_select, init, on_init, confirm, on_confirm of one transaction are
\* eventually dispatched in that order and the Buyer's durable energy gets to
\* 11.0 kWh and the Seller's to 2.0 kWh, tick deltas aside.
C2_Lifecycle ==
  (started[H1] # "no" /\ started[H2] # "no")
    ~> (/\ \E i \in DOMAIN log : log[i] = Lifecycle
        /\ Sim(H1).profile # None /\ Sim(H2).profile # None
        /\ \E k \in 0..3 : Energy(H1) = 100 + QtyHousehold - 3 * k
        /\ \E k \in 0..3 : Energy(H2) = 1200 - QtyHousehold + 2 * k)

\* the fields of a thread that belong to a transaction
Cleared(state) ==
  /\ state.active_transaction_id = 0
  /\ state.active_transaction_context = None
  /\ state.selected_offer = None
  /\ state.final_contract = None

\* C3: the step of process_bap_completion leaves the transaction-scoped
\* fields of the thread it runs under empty (active_transaction_id,
\* active_transaction_context, selected_offer, final_contract,
\* received_offers), and from then on the active_transaction_id of the agent's
\* simulation thread is not that transaction's id.
C3_CompletionClearsActive ==
  [][/\ \A r \in BagToSet(running), r2 \in BagToSet(running') :
          (Stepped(r, r2) /\ r.at = "process_bap_completion")
          => /\ Cleared(store'[r.agent][r.key])
             /\ store'[r.agent][r.key].received_offers = <<>>
     /\ \A c \in BagToSet(credited') :
          store'[c.agent][SimKey].active_transaction_id # c.tx]_vars

\* C4: the durable energy is credited at most once per contract: no contract
\* ran through process_bap_completion of the same agent twice.
C4_CreditedOnce ==
  \A c \in BagToSet(credited) : CopiesIn(c, credited) <= 1

\* C5 as stated: once evaluate_offers ran in an invocation with accumulated
\* offers, the selected offer is one of received_offers, its price is at most
\* the price of every accumulated offer, and every offer before it in the list
\* is strictly dearer.
C5_AnyInvocation ==
  \A r \in BagToSet(running) :
    LET offers == r.own.received_offers IN
    (Ran(r.nodes, "evaluate_offers") /\ offers # <<>>) =>
      \E i \in 1..Len(offers) :
        /\ r.own.selected_offer = Some(offers[i])
        /\ \A j \in 1..Len(offers) : offers[i].price_per_kwh <= offers[j].price_per_kwh
        /\ \A j \in 1..(i-1) : offers[j].price_per_kwh > offers[i].price_per_kwh

\* C5: once evaluate_offers ran in an invocation that has a profile and
\* accumulated offers, the selected offer is one of received_offers, its price
\* is at most the price of every accumulated offer, and every offer before it
\* in the list is strictly dearer.
C5_SelectsFirstCheapest ==
  \A r \in BagToSet(running) :
    LET offers == r.own.received_offers IN
    (Ran(r.nodes, "evaluate_offers") /\ offers # <<>> /\ r.own.profile # None) =>
      \E i \in 1..Len(offers) :
        /\ r.own.selected_offer = Some(offers[i])
        /\ \A j \in 1..Len(offers) : offers[i].price_per_kwh <= offers[j].price_per_kwh
        /\ \A j \in 1..(i-1) : offers[j].price_per_kwh > offers[i].price_per_kwh

\* prices [0.20, 0.15, 0.25]: the 0.15 offer is selected
C5_Witness ==
  \E r \in BagToSet(running) :
    LET offers == r.own.received_offers IN
    /\ Ran(r.nodes, "evaluate_offers")
    /\ Len(offers) = 3
    /\ offers[1].price_per_kwh = 20 /\ offers[2].price_per_kwh = 15
    /\ offers[3].price_per_kwh = 25
    /\ r.own.selected_offer = Some(offers[2])

\* C6: evaluate_offers on an empty received_offers leaves the values of the
\* run as they were but for the trigger, which is search_failed, and the run
\* ends there (no send_select); the invocation of such a run then starts no
\* transport call and leaves the profile of the simulation thread as it is.
C6_EmptyOffers ==
  [][/\ \A r \in BagToSet(running), r2 \in BagToSet(running') :
          (Stepped(r, r2) /\ r.at = "evaluate_offers" /\ r.own.received_offers = <<>>)
          => /\ r2.own = [r.own EXCEPT !.trigger = "search_failed"]
             /\ r2.at = "__end__"
             /\ r2.made = r.made
     /\ \A r \in BagToSet(running) :
          (/\ Ended(r)
           /\ r.nodes = <<"evaluate_offers">>
           /\ r.own.received_offers = <<>>)
          => /\ NewPosts = {}
             /\ store'[r.agent][SimKey].profile = Sim(r.agent).profile]_vars

\* C7: the invocation in which formulate_offer declined starts no transport
\* call when it goes on after its stream.
C7_DeclineSendsNothing ==
  [][\A r \in BagToSet(running) :
       (Ended(r) /\ Ran(r.nodes, "formulate_offer") /\ r.made = None)
       => NewPosts = {}]_vars

\* C8: a set active_transaction_id of a simulation thread is never replaced by
\* another one without being cleared first, and initiate_search runs only in
\* a run that holds none.
C8_OneActiveTransaction ==
  [][/\ \A a \in Agents :
          Sim(a).active_transaction_id # 0 =>
            store'[a][SimKey].active_transaction_id \in {0, Sim(a).active_transaction_id}
     /\ \A r \in BagToSet(running), r2 \in BagToSet(running') :
          (Stepped(r, r2) /\ r.at = "initiate_search")
            => r.own.active_transaction_id = 0]_vars

\* the cycle of a household below 0.3 x max_capacity that found a transaction
\* active: it ended after the supervisor, idle, and searched for nothing
C8_Witness ==
  \E r \in BagToSet(running) :
    /\ r.input.trigger = "simulation_cycle"
    /\ r.nodes = <<"supervisor">> /\ r.at = "__end__"
    /\ r.own.profile[1].agent_type = "household"
    /\ r.own.profile[1].current_energy_storage_kwh = 449
    /\ "active_transaction_id" \in DOMAIN r.input
    /\ r.input.active_transaction_id # 0
    /\ r.own.active_transaction_id = 0
    /\ nextTx = 0

\* C9: the supervisor of a decision cycle that finds active_transaction_id set
\* clears active_transaction_id, active_transaction_context, selected_offer
\* and final_contract and decides idle, whatever the energy; the run ends
\* there, allocates no transaction, and the invocation starts no transport
\* call.
C9_StuckCleared ==
  [][/\ \A r \in BagToSet(running), r2 \in BagToSet(running') :
          (/\ Stepped(r, r2)
           /\ r.at = "supervisor"
           /\ r.input.trigger = "simulation_cycle"
           /\ r.own.active_transaction_id # 0)
          => /\ Cleared(r2.own)
             /\ r2.own.trigger = "idle"
             /\ r2.own.outgoing_request = r.own.outgoing_request
             /\ r2.at = "__end__"
             /\ store'[r.agent][r.key] = r2.own
             /\ nextTx' = nextTx
     /\ \A r \in BagToSet(running) :
          (/\ Ended(r)
           /\ r.input.trigger = "simulation_cycle"
           /\ r.nodes = <<"supervisor">>)
          => NewPosts = {}]_vars

\* the cycle of a household above 0.7 x max_capacity cleared the transaction
\* it found active
C9_Witness ==
  \E r \in BagToSet(running) :
    /\ r.input.trigger = "simulation_cycle"
    /\ r.nodes = <<"supervisor">> /\ r.at = "__end__"
    /\ "active_transaction_id" \in DOMAIN r.input
    /\ r.input.active_transaction_id # 0
    /\ r.input.active_transaction_context # None
    /\ r.own.profile[1].agent_type = "household"
    /\ r.own.profile[1].current_energy_storage_kwh = 1051
    /\ Cleared(r.own)
    /\ r.own.trigger = "idle"

\* the profile is a household's below 0.3 x max_capacity
Low(profile) ==
  /\ profile.agent_type = "household"
  /\ 10 * profile.current_energy_storage_kwh < 3 * profile.max_capacity_kwh

\* C10: the supervisor of a decision cycle that finds no active transaction
\* decides start_bap_flow, and initiate_search follows, if and only if the
\* profile is a household's with energy below 0.3 x max_capacity; otherwise
\* the run ends idle, no transaction is created and the invocation starts no
\* transport call.
C10_StartIffLowHousehold ==
  [][/\ \A r \in BagToSet(running), r2 \in BagToSet(running') :
          (/\ Stepped(r, r2)
           /\ r.at = "supervisor"
           /\ r.input.trigger = "simulation_cycle"
           /\ r.own.active_transaction_id = 0)
          => /\ Low(r.own.profile[1]) =>
                  r2.own.trigger = "start_bap_flow" /\ r2.at = "initiate_search"
             /\ ~Low(r.own.profile[1]) =>
                  /\ r2.own.trigger = "idle"
                  /\ r2.at = "__end__"
                  /\ r2.own.active_transaction_id = 0
                  /\ r2.own.outgoing_request = r.own.outgoing_request
                  /\ nextTx' = nextTx
     /\ \A r \in BagToSet(running), r2 \in BagToSet(running') :
          (Stepped(r, r2) /\ r.at = "initiate_search")
            => /\ r.nodes = <<"supervisor">>
               /\ Low(r.own.profile[1])
               /\ nextTx' = nextTx + 1
     /\ \A r \in BagToSet(running) :
          (/\ Ended(r)
           /\ r.input.trigger = "simulation_cycle"
           /\ r.nodes = <<"supervisor">>)
          => NewPosts = {}]_vars

\* a household at 4.49 of 15.0 kWh searched; at 4.50 kWh the cycle would have
\* ended idle
C10_Witness ==
  \E r \in BagToSet(running) :
    /\ r.nodes = <<"supervisor", "initiate_search">>
    /\ r.own.profile[1].agent_type = "household"
    /\ r.own.profile[1].current_energy_storage_kwh = 449
    /\ r.own.active_transaction_id = 1

\* every transaction id found in a thread, in a request under way, in a
\* scheduled invocation, in a request ever dispatched or in another run
UsedIds(r) ==
  {store[a][k].active_transaction_id : a \in Agents, k \in Keys}
    \cup {p.payload.context.transaction_id :
            p \in {p \in BagToSet(posts) : p.kind # "start"}}
    \cup {q.payload.context.transaction_id : q \in BagToSet(outside)}
    \cup {t.key : t \in BagToSet(tasks)}
    \cup {q.key : q \in BagToSet(running)}
    \cup {q.own.active_transaction_id : q \in BagToSet(running) \ {r}}
    \cup {i \in DOMAIN log : log[i] # <<>>}

\* C11: initiate_search records as active_transaction_id a transaction id
\* found nowhere before and a context with that id naming the agent as buyer
\* (bap_id, bap_uri) and no seller; the invocation then starts exactly one
\* transport call: the search with that context, addressed to the gateway.
C11_SearchAllocates ==
  [][/\ \A r \in BagToSet(running), r2 \in BagToSet(running') :
          (Stepped(r, r2) /\ r.at = "initiate_search")
          => LET id == r2.own.active_transaction_id
                 context == r2.own.active_transaction_context[1]
             IN /\ id # 0
                /\ id \notin UsedIds(r)
                /\ r2.own.active_transaction_context # None
                /\ context.transaction_id = id
                /\ context.action = "search"
                /\ context.bap_id = r.own.profile[1].agent_id
                /\ context.bap_uri = OwnUrl(r.own.profile[1].agent_id)
                /\ context.bpp_id = "" /\ context.bpp_uri = ""
                /\ r2.own.outgoing_request =
                     Some([url |-> Url(GATEWAY_URL, "search"),
                           payload |-> [context |-> context,
                                        message |-> [intent |-> <<>>]]])
                /\ r2.at = "__end__"
     /\ \A r \in BagToSet(running) :
          (Ended(r) /\ Ran(r.nodes, "initiate_search"))
          => /\ NewPosts = {Post(r.agent, r.key, r.kind, r.own.outgoing_request[1], None)}
             /\ store'[r.agent][r.key].outgoing_request = None
             /\ log' = [log EXCEPT ![r.own.active_transaction_id] = Append(@, "search")]]_vars

\* the search of a buyer, under an id of its own, on its way to the gateway
C11_Witness ==
  /\ running = EmptyBag
  /\ Sim(U1).active_transaction_id = 1
  /\ log[1] = <<"search">>
  /\ \E p \in BagToSet(posts) :
       /\ p.url = Url(GATEWAY_URL, "search")
       /\ p.payload.context.transaction_id = 1
       /\ p.payload.context.bap_id = H1
       /\ p.payload.context.bap_uri = HouseholdUrl(1)

\* the dispatch table: trigger and the handler it selects
DispatchTable ==
  {<<"simulation_cycle", "supervisor">>,
   <<"incoming_search", "formulate_offer">>,
   <<"incoming_select", "process_selection">>,
   <<"incoming_init", "process_init">>,
   <<"incoming_confirm", "process_confirmation">>,
   <<"incoming_on_search", "evaluate_offers">>,
   <<"incoming_on_select", "send_init">>,
   <<"incoming_on_init", "send_confirm">>,
   <<"incoming_on_confirm", "process_bap_completion">>}

\* the handler that may be chained after node, given the trigger it left
Chained(node, trigger) ==
  IF node = "supervisor" /\ trigger = "start_bap_flow" THEN <<"initiate_search">>
  ELSE IF node = "evaluate_offers" /\ trigger = "selection_made" THEN <<"send_select">>
  ELSE <<>>

C13_UnknownTrigger ==
  [][\A r \in BagToSet(running) :
       (Ended(r) /\ \A row \in DispatchTable : row[1] # r.input.trigger)
       => /\ r.nodes = <<>>
          /\ NewPosts = {}
          /\ store'[r.agent][SimKey].profile = Sim(r.agent).profile
          /\ store'[r.agent][SimKey].active_transaction_id = Sim(r.agent).active_transaction_id
          /\ store'[r.agent][SimKey].active_transaction_context =
               Sim(r.agent).active_transaction_context
          /\ store'[r.agent][SimKey].selected_offer = Sim(r.agent).selected_offer
          /\ store'[r.agent][SimKey].final_contract = Sim(r.agent).final_contract
          /\ store'[r.agent][SimKey].received_offers = Sim(r.agent).received_offers]_vars

\* the request of a transport call
Sent(p) == [url |-> p.url, payload |-> p.payload]

\* C14: when an invocation goes on after its stream it starts one transport
\* call, for the request the nodes of its run returned, if they returned one,
\* and none otherwise; the request is then no longer in the thread.  So each
\* invocation sends at most one request, its own, and a request is sent once.
C14_SentOnce ==
  [][\A r \in BagToSet(running) :
       Ended(r) =>
         /\ {Sent(p) : p \in NewPosts} = (IF r.made # None THEN {r.made[1]} ELSE {})
         /\ \A p \in NewPosts : CopiesIn(p, posts') = CopiesIn(p, posts) + 1
         /\ store'[r.agent][r.key].outgoing_request = None]_vars

\* the stores after the transport call p has returned to its sender: a task
\* under a transaction key has written the profile of its final state into
\* the simulation thread, the solar agent's cycle has added its generation
Returned(p) ==
  [a \in Agents |-> [k \in Keys |->
     IF a = p.sender /\ k = SimKey /\ p.profile # None
     THEN [store[a][k] EXCEPT !.profile = p.profile]
     ELSE IF a = p.sender /\ k = SimKey /\ p.kind = "tick"
          THEN [store[a][k] EXCEPT !.profile = Some(Generated(@[1]))]
          ELSE store[a][k]]]

\* the transport call p of an invocation ends in this step without having
\* been answered
Dropped(p) ==
  /\ BagIn(p, posts)
  /\ p.kind \in {"task", "tick"}
  /\ ~p.answered
  /\ CopiesIn(Answered(p), posts') <= CopiesIn(Answered(p), posts)
  /\ \/ CopiesIn(p, posts') < CopiesIn(p, posts)
     \/ failed' = failed + 1

\* C15: when the transport call of an invocation fails, the call leaves the
\* calls in flight and no call is added (no retry), nobody receives the
\* request, nothing is dispatched, and the stores are what they are after the
\* call has returned successfully: the sender's profile write-back done, no
\* field recording the failure.
C15_FailureDropped ==
  [][/\ \A p \in BagToSet(posts) :
          (Dropped(p) /\ \A q \in BagToSet(posts) \ {p} : ~Dropped(q))
          => /\ posts' = posts (-) One(p)
             /\ tasks' = tasks
             /\ running' = running
             /\ log' = log
             /\ store' = Returned(p)
     /\ \A p \in BagToSet(posts) :
          (/\ p.answered /\ p.kind \in {"task", "tick"}
           /\ CopiesIn(p, posts') = CopiesIn(p, posts) - 1)
            => store' = Returned(p)]_vars

\* the utility's on_confirm is lost: the utility is debited and its profile
\* is written back, nothing is in flight
C15_Witness ==
  /\ failed = 1
  /\ \E d \in debited : d.agent = U1
  /\ Energy(U1) = UTILITY_CAPACITY_KWH - QtyContract
  /\ \E i \in DOMAIN log : log[i] = <<"on_confirm">>
  /\ credited = EmptyBag
  /\ Quiescent

\* the profile the invocation of r writes into the simulation thread when it
\* goes on after its stream: at once, or when its transport call is over
WrittenBack(r) ==
  IF NewPosts = {} THEN store'[r.agent][SimKey].profile
  ELSE (CHOOSE p \in NewPosts : TRUE).profile

\* C16: the invocation whose run went through process_bap_completion or
\* process_confirmation writes the profile that node left, with the mutated
\* energy, into the simulation thread.
C16_WriteBackSeen ==
  [][\A r \in BagToSet(running) :
       (/\ Ended(r)
        /\ r.key # SimKey
        /\ Ran(r.nodes, "process_bap_completion") \/ Ran(r.nodes, "process_confirmation"))
       => WrittenBack(r) = r.own.profile]_vars

RECURSIVE SumCopies(_)
SumCopies(S) ==
  IF S = {} THEN 0
  ELSE LET c == CHOOSE c \in S : TRUE IN CopiesIn(c, credited) + SumCopies(S \ {c})

\* contracts credited to, and debited from, an agent so far
Credits(a) == SumCopies({c \in BagToSet(credited) : c.agent = a})
Debits(a) == Cardinality({d \in debited : d.agent = a})

\* the energies that come from e by at most c credits and d debits of the
\* contract quantity, in any order
RECURSIVE Explained(_, _, _)
Explained(e, c, d) ==
  {e} \cup (IF c > 0 THEN Explained(e + QtyContract, c - 1, d) ELSE {})
      \cup (IF d > 0 THEN Explained(e - QtyContract, c, d - 1) ELSE {})

\* C17: a write-back may undo updates but invents none: the durable energy of
\* the utility is always its initial energy changed by some of the contract
\* quantities credited to it and some of those debited from it.  (That not
\* all of them need be in it is the lost update.)
C17_UpdatesMayBeLost ==
  Sim(U1).profile # None =>
    Energy(U1) \in Explained(UTILITY_CAPACITY_KWH, Credits(U1), Debits(U1))

\* at rest, the utility was credited as the buyer of one transaction and
\* debited as the seller of another, both invocations started from the same
\* profile, and its durable energy holds the debit alone
C17_Witness ==
  /\ Quiescent
  /\ Credits(U1) = 1 /\ Debits(U1) = 1
  /\ \E c \in BagToSet(credited), d \in debited :
       c.agent = U1 /\ d.agent = U1 /\ c.tx # d.tx
  /\ Energy(U1) = UTILITY_CAPACITY_KWH - QtyContract

\* the four requests a seller receives
SellerTriggers == {"incoming_search", "incoming_select", "incoming_init", "incoming_confirm"}

\* "incoming_x" -> "on_x"
ReplyAction(trigger) ==
  CASE trigger = "incoming_search" -> "on_search"
    [] trigger = "incoming_select" -> "on_select"
    [] trigger = "incoming_init" -> "on_init"
    [] trigger = "incoming_confirm" -> "on_confirm"
    [] OTHER -> ""

\* the request q reaches an agent in this step: a transport call of the
\* system, or a request from outside
Received(q) ==
  /\ q.url.base \notin {GATEWAY_URL, OUTSIDE_URL}
  /\ \/ /\ BagIn(q, posts) /\ ~q.answered
        /\ posts' = (posts (-) One(q)) (+) One(Answered(q))
     \/ /\ BagIn(q, outside)
        /\ outside' = outside (-) One(q)
        /\ posts' = posts

\* C18: the step in which an agent receives a request answers it (the ACK)
\* and schedules the handler: no handler has run, nothing is dispatched and
\* the receiver's threads are untouched, whatever the request.  The reply a
\* handler makes to a search, select, init or confirm is a request of its own,
\* addressed to the bap_uri of the request's context.
C18_AckThenReply ==
  [][/\ \A q \in BagToSet(posts) \cup BagToSet(outside) :
          Received(q)
          => /\ \E t \in BagToSet(tasks') :
                  /\ tasks' = tasks (+) One(t)
                  /\ t.agent = Listener(q.url.base)[1]
                  /\ t.key = q.payload.context.transaction_id
                  /\ t.input.trigger = "incoming_" \o q.url.action
             /\ running' = running
             /\ log' = log
             /\ store' = store
     /\ \A r \in BagToSet(running) :
          (Ended(r) /\ r.input.trigger \in SellerTriggers /\ r.made # None)
          => r.made[1].url = Url(r.input.active_transaction_context[1].bap_uri,
                                 ReplyAction(r.input.trigger))]_vars

\* the context of a request may differ from that of the search by the action
\* and the seller
SameTransaction(context, search) ==
  [context EXCEPT !.action = "search", !.bpp_id = "", !.bpp_uri = ""] = search

\* C19: every request of transaction 1 in flight carries the context of the
\* originating search but for the action and the seller identity (bpp_id,
\* bpp_uri): transaction_id, bap_id, bap_uri and the rest are the same.
C19_ContextCarried ==
  \A p \in BagToSet(posts) :
    (p.kind # "start" /\ p.payload.context.transaction_id = 1)
      => SameTransaction(p.payload.context, Search(1, U1, UTILITY_URL).payload.context)

\* the on_confirm of a transaction that sent every message before
C19_Witness ==
  /\ log[1] = <<"on_search", "select", "on_select", "init", "on_init", "confirm", "on_confirm">>
  /\ \E p \in BagToSet(posts) :
       /\ p.url.action = "on_confirm"
       /\ p.payload.context.bap_id = U1
       /\ p.payload.context.bpp_id = U1

\* the uris a forward of the gateway still has to attempt, in order
Pending(q) == <<q.url.base>> \o q.rest

\* the request q reaches the gateway in this step
GatewayGets(q) ==
  /\ q.url.base = GATEWAY_URL
  /\ \/ /\ BagIn(q, posts) /\ ~q.answered
        /\ CopiesIn(q, posts') = CopiesIn(q, posts) - 1
        /\ CopiesIn(Answered(q), posts') = CopiesIn(Answered(q), posts) + 1
     \/ /\ BagIn(q, outside)
        /\ outside' = outside (-) One(q)

\* the forward p of the gateway is over in this step: it failed, or its
\* answer is back
Over(p) ==
  /\ BagIn(p, posts)
  /\ p.sender = "gateway"
  /\ CopiesIn(p, posts') = CopiesIn(p, posts) - 1
  /\ p.answered \/ CopiesIn(Answered(p), posts') = CopiesIn(Answered(p), posts)

\* the forwards of the gateway that this step started
NewForwards == {q \in NewPosts : q.sender = "gateway"}

\* this step started exactly the forward of payload to the first of uris, the
\* rest of them to follow, or nothing when uris is empty
Continues(uris, payload) ==
  IF uris = <<>>
  THEN NewForwards = {}
  ELSE \E q \in NewForwards :
          /\ NewForwards = {q}
          /\ CopiesIn(q, posts') = CopiesIn(q, posts) + 1
          /\ q.url.action = "search"
          /\ Pending(q) = uris /\ q.payload = payload

\* C20: the registry never holds a uri twice (registering again leaves one
\* entry); a search the gateway accepts is forwarded to the registered uris,
\* one after the other in registration order, each exactly once, and a
\* forward that fails is followed by the forwards to the remaining uris like
\* one that was answered; a request to the gateway for any other action is
\* forwarded to nobody.
C20_GatewayFansOut ==
  [][/\ \A i, j \in 1..Len(registry') : registry'[i] = registry'[j] => i = j
     /\ IsPrefix(registry, registry')
     /\ \A q \in BagToSet(posts) \cup BagToSet(outside) :
          GatewayGets(q) =>
            /\ tasks' = tasks
            /\ IF q.url.action = "search"
               THEN Continues(registry, q.payload)
               ELSE NewForwards = {}
     /\ \A p \in BagToSet(posts) :
          Over(p) =>
            /\ tasks' = tasks
            /\ Continues(p.rest, p.payload)
            /\ \A i \in 1..Len(p.rest) : p.rest[i] # p.url.base
     /\ (/\ \A q \in BagToSet(posts) \cup BagToSet(outside) : ~GatewayGets(q)
         /\ \A p \in BagToSet(posts) : ~Over(p))
          => NewForwards = {}]_vars

\* the forward to the first registered agent failed and the forward to the
\* second is under way
C20_Witness ==
  /\ Len(registry) = 2
  /\ failed = 1
  /\ tasks = EmptyBag /\ running = EmptyBag
  /\ \A a \in Agents : store[a][1].trigger = ""
  /\ \E q \in BagToSet(posts) :
       q.sender = "gateway" /\ q.url.base = registry[2] /\ q.rest = <<>> /\ ~q.answered

\* C21: process_bap_completion leaves a profile whose energy is the energy it
\* found plus the agreed_quantity_kwh of the contract, active_transaction_id,
\* active_transaction_context, selected_offer and final_contract None, and
\* received_offers empty, in the run and in the thread it ran under.
C21_CompletionClears ==
  [][\A r \in BagToSet(running), r2 \in BagToSet(running') :
       (Stepped(r, r2) /\ r.at = "process_bap_completion")
       => /\ r2.own.profile[1].current_energy_storage_kwh =
               r.own.profile[1].current_energy_storage_kwh
                 + r.own.final_contract[1].agreed_quantity_kwh
          /\ Cleared(r2.own)
          /\ r2.own.received_offers = <<>>
          /\ store'[r.agent][r.key] = r2.own]_vars

\* C22: process_confirmation builds a contract between the buyer of the
\* request and itself, leaves a profile whose energy is the energy it found
\* minus the agreed_quantity_kwh of that contract, and returns one request:
\* the on_confirm with that contract, addressed to the bap_uri of the request.
\* process_bap_completion adds the agreed_quantity_kwh of the contract it
\* received, and a contract credited that was debited was credited with the
\* quantity debited.
C22_DebitEqualsCredit ==
  [][/\ \A r \in BagToSet(running), r2 \in BagToSet(running') :
          (Stepped(r, r2) /\ r.at = "process_confirmation")
          => /\ r2.made # None
             /\ LET contract == r2.made[1].payload.message.order
                    context == r.own.active_transaction_context[1]
                IN /\ r2.made[1].url = Url(context.bap_uri, "on_confirm")
                   /\ r2.own.outgoing_request = r2.made
                   /\ contract.bap_agent_id = context.bap_id
                   /\ contract.bpp_agent_id = r.own.profile[1].agent_id
                   /\ contract.agreed_quantity_kwh > 0
                   /\ r2.own.profile[1].current_energy_storage_kwh =
                        r.own.profile[1].current_energy_storage_kwh
                          - contract.agreed_quantity_kwh
                   /\ \E d \in debited' \ debited :
                        /\ d.contract_id = contract.contract_id
                        /\ d.qty = contract.agreed_quantity_kwh
     /\ \A r \in BagToSet(running), r2 \in BagToSet(running') :
          (Stepped(r, r2) /\ r.at = "process_bap_completion")
          => r2.own.profile[1].current_energy_storage_kwh =
               r.own.profile[1].current_energy_storage_kwh
                 + r.own.final_contract[1].agreed_quantity_kwh
     /\ \A c \in BagToSet(credited'), d \in debited' :
          c.contract_id = d.contract_id => c.qty = d.qty]_vars

\* one contract of 10.0 kWh, debited from its seller and credited to its
\* buyer
C22_Witness ==
  /\ BagCardinality(credited) = 1
  /\ Cardinality(debited) = 1
  /\ \E c \in BagToSet(credited), d \in debited :
       /\ c.contract_id = d.contract_id
       /\ c.qty = QtyContract
       /\ d.qty = QtyContract

\* the triggers whose handlers return no profile
KeepsProfile ==
  {"incoming_search", "incoming_select", "incoming_init",
   "incoming_on_search", "incoming_on_select", "incoming_on_init"}

\* the transport call p of an invocation is over in this step
Back(p) ==
  /\ BagIn(p, posts)
  /\ p.kind = "task"
  /\ CopiesIn(p, posts') = CopiesIn(p, posts) - 1
  /\ p.answered \/ CopiesIn(Answered(p), posts') = CopiesIn(Answered(p), posts)

\* C23: neither the end of the invocation of a handler that returns no profile
\* (formulate_offer, process_selection, process_init, evaluate_offers,
\* send_select, send_init, send_confirm) nor the return of the transport call
\* of the request it sent changes the simulation-scoped profile of the agent,
\* whatever happened to that profile while the invocation ran and the call
\* was awaited.
C23_ProfileKept ==
  [][/\ \A r \in BagToSet(running) :
          (Ended(r) /\ r.input.trigger \in KeepsProfile)
          => store'[r.agent][SimKey].profile = Sim(r.agent).profile
     /\ \A p \in BagToSet(posts) :
          (Back(p) /\ p.key # SimKey /\ p.url.action # "on_confirm")
          => store'[p.sender][SimKey].profile = Sim(p.sender).profile]_vars

\* how often a request of this action was dispatched for transaction i
Dispatches(i, action) == Cardinality({j \in 1..Len(log[i]) : log[i][j] = action})

\* C24: for every transaction id at most one select is dispatched, however
\* many on_search requests answer its search.
C24_OneSelect ==
  \A i \in DOMAIN log : Dispatches(i, "select") <= 1

\* the node route_trigger names for a callback of a seller
SendNode(trigger) == IF trigger = "incoming_on_select" THEN "send_init" ELSE "send_confirm"

\* C26: send_init and send_confirm on a state without selected_offer return
\* the trigger transaction_failed and nothing else: no request, every other
\* field of the run as it was; with a selected_offer they return one request,
\* init or confirm, to the bpp_uri of the context, naming that offer and its
\* provider.  The invocation for an on_select or on_init whose run holds no
\* selected_offer ends after that node with the trigger transaction_failed,
\* starts no transport call and leaves the profile of the simulation thread
\* as it is; a run makes an init or a confirm only while it holds a
\* selected_offer.
C26_NeedsSelectedOffer ==
  [][/\ \A r \in BagToSet(running), r2 \in BagToSet(running') :
          (Stepped(r, r2) /\ r.at \in {"send_init", "send_confirm"})
          => LET context == r.own.active_transaction_context[1]
                 action == IF r.at = "send_init" THEN "init" ELSE "confirm"
             IN IF r.own.selected_offer = None
                THEN /\ r2.own = [r.own EXCEPT !.trigger = "transaction_failed"]
                     /\ r2.made = None
                     /\ r2.at = "__end__"
                     /\ store'[r.agent][r.key] = r2.own
                ELSE /\ r2.made # None
                     /\ r2.made[1].url = Url(context.bpp_uri, action)
                     /\ r2.made[1].payload.context = [context EXCEPT !.action = action]
                     /\ r2.made[1].payload.message = OrderRef(r.own.selected_offer[1])
                     /\ r2.own = [r.own EXCEPT !.outgoing_request = r2.made]
     /\ \A r \in BagToSet(running) :
          (/\ Finished(r)
           /\ r.input.trigger \in {"incoming_on_select", "incoming_on_init"}
           /\ r.own.selected_offer = None)
          => /\ r.at = "__end__"
             /\ r.nodes = <<SendNode(r.input.trigger)>>
             /\ r.own.trigger = "transaction_failed"
             /\ NewPosts = {}
             /\ store'[r.agent][SimKey].profile = Sim(r.agent).profile
     /\ \A r \in BagToSet(running), r2 \in BagToSet(running') :
          (/\ Stepped(r, r2)
           /\ r2.made # r.made /\ r2.made # None
           /\ r2.made[1].url.action \in {"init", "confirm"})
          => r.own.selected_offer # None]_vars

\* C27: formulate_offer returns a request only if the profile is not a
\* household's below 0.6 x max_capacity; the request is an on_search addressed
\* to the bap_uri of the search, whose context names the agent as seller and
\* whose one offer names it as provider, with quantity 10.0 and price 0.15 for
\* a household, 500.0 and 0.25 otherwise.
C27_OfferOnlyWithSurplus ==
  [][\A r \in BagToSet(running), r2 \in BagToSet(running') :
       (Stepped(r, r2) /\ r.at = "formulate_offer" /\ r2.made # None)
       => LET profile == r.own.profile[1]
              household == profile.agent_type = "household"
              request == r2.made[1]
              items == request.payload.message.catalog.items
          IN /\ household =>
                  10 * profile.current_energy_storage_kwh >= 6 * profile.max_capacity_kwh
             /\ request.url = Url(r.own.active_transaction_context[1].bap_uri, "on_search")
             /\ request.payload.context.action = "on_search"
             /\ request.payload.context.bpp_id = profile.agent_id
             /\ Len(items) = 1
             /\ items[1].provider_id = profile.agent_id
             /\ items[1].quantity_kwh = (IF household THEN 1000 ELSE 50000)
             /\ items[1].price_per_kwh = (IF household THEN 15 ELSE 25)]_vars

\* a household at 9.0 of 15.0 kWh offered
C27_Witness ==
  \E r \in BagToSet(running) :
    /\ r.nodes = <<"formulate_offer">>
    /\ r.made # None
    /\ r.own.profile[1].agent_type = "household"
    /\ r.own.profile[1].current_energy_storage_kwh = 900

\* the node that answers a request of a buyer
ReplyNode(trigger) ==
  IF trigger = "incoming_select" THEN "process_selection"
  ELSE IF trigger = "incoming_init" THEN "process_init"
  ELSE "process_confirmation"

\* C28: process_selection, process_init and process_confirmation run only for
\* a received select, init and confirm, and each returns one request: the
\* on_select, on_init or on_confirm of the transaction of the request received,
\* addressed to its bap_uri; no other node returns such a request, and
\* process_selection and process_init change no field of the state other than
\* outgoing_request.  The invocation for a select, init or confirm starts
\* exactly one transport call, the reply its run made, and an on_select,
\* on_init or on_confirm is started by no other invocation.
C28_OneReplyPerRequest ==
  [][/\ \A r \in BagToSet(running), r2 \in BagToSet(running') :
          Stepped(r, r2)
          => LET replies == r.input.trigger \in {"incoming_select", "incoming_init",
                                                  "incoming_confirm"}
                 context == r.input.active_transaction_context[1]
             IN /\ r.at \in {"process_selection", "process_init", "process_confirmation"}
                     => /\ replies
                        /\ r.at = ReplyNode(r.input.trigger)
                        /\ r2.made # None
                        /\ r2.made[1].url = Url(context.bap_uri, ReplyAction(r.input.trigger))
                        /\ r2.made[1].payload.context.transaction_id = context.transaction_id
                        /\ r2.own.outgoing_request = r2.made
                /\ r.at \in {"process_selection", "process_init"}
                     => r2.own = [r.own EXCEPT !.outgoing_request = r2.made]
                /\ (r2.made # r.made /\ r2.made # None
                      /\ r2.made[1].url.action \in {"on_select", "on_init", "on_confirm"})
                     => /\ replies
                        /\ r.at = ReplyNode(r.input.trigger)
                        /\ r.made = None
     /\ \A r \in BagToSet(running) :
          (Finished(r) /\ r.input.trigger \in {"incoming_select", "incoming_init",
                                                "incoming_confirm"})
          => /\ r.at = "__end__"
             /\ r.nodes = <<ReplyNode(r.input.trigger)>>
             /\ r.made # None
             /\ r.made[1].url.action = ReplyAction(r.input.trigger)
             /\ r.made[1].payload.context.transaction_id = r.key
             /\ NewPosts = {Post(r.agent, r.key, r.kind, r.made[1],
                                 IF MergesProfile(r.agent) THEN store[r.agent][r.key].profile
                                 ELSE None)}
     /\ \A r \in BagToSet(running), p \in NewPosts :
          (Finished(r) /\ p.url.action \in {"on_select", "on_init", "on_confirm"})
          => /\ r.input.trigger \in {"incoming_select", "incoming_init", "incoming_confirm"}
             /\ p.url.action = ReplyAction(r.input.trigger)
             /\ p.payload.context.transaction_id = r.key]_vars

\* C29: the received_offers of a thread only grows from step to step, but for
\* the step of process_bap_completion that ends the transaction.
C29_OffersAccumulate ==
  [][\A a \in Agents, k \in Keys :
       \/ IsPrefix(store[a][k].received_offers, store'[a][k].received_offers)
       \/ \E r \in BagToSet(running), r2 \in BagToSet(running') :
            /\ Stepped(r, r2) /\ r.at = "process_bap_completion"
            /\ r.agent = a /\ r.key = k]_vars

\* a search in the name of agent a under a transaction id other than i is on
\* its way
SearchedAgain(a, i) ==
  \E p \in BagToSet(posts) :
    /\ p.url = Url(GATEWAY_URL, "search")
    /\ p.payload.context.bap_id = a
    /\ p.payload.context.transaction_id # i

\* C30: once a request of a transaction was dropped, its buyer dispatches no
\* further request (search, select, init, confirm) of that transaction; and
\* the buyer of a transaction with
\* a dropped request, as long as it is a household below 0.3 x max_capacity,
\* eventually dispatches a search under another transaction id.
C30_StallsAlone ==
  /\ [][\A d \in dropped, action \in {"search", "select", "init", "confirm"} :
          Dispatches(d.tx, action)' = Dispatches(d.tx, action)]_vars
  /\ \A a \in Agents, i \in 1..(MaxTx + 1) :
       ([tx |-> i, buyer |-> a] \in dropped
          /\ Sim(a).profile # None /\ Low(Sim(a).profile[1]))
         ~> (\/ SearchedAgain(a, i)
             \/ ~(Sim(a).profile # None /\ Low(Sim(a).profile[1])))

\* C31: the initial profile of every agent started is a valid AgentProfile,
\* and no agent fails to start.
C31_InitialProfileValid ==
  \A a \in Agents :
    started[a] # "no"
      => /\ \A e \in InitialEnergy(a) : INITIAL_PROFILE(a, e) # ValidationError
         /\ started[a] # "failed"

\* a seller answered the search of transaction i with an offer
Offered(i) ==
  \E j \in 1..Len(log[i]) : log[i][j] = "on_search"

\* the buyer's durable energy was raised by the quantity of a contract of
\* transaction i
Completed(i) ==
  \E c \in BagToSet(credited) :
    /\ c.tx = i
    /\ c.qty > 0
    /\ \E d \in debited : d.contract_id = c.contract_id /\ d.qty = c.qty

\* C32: when no transport call fails and every task, run and call goes on,
\* a transaction whose search a seller answered with an offer eventually
\* reaches process_bap_completion, which raises the buyer's energy by the
\* quantity of the contract.
C32_PurchaseCompletes ==
  \A i \in 1..MaxTx : Offered(i) ~> Completed(i)

\* C33: in no state at rest has a contract been debited at its seller without
\* being credited at its buyer with the same quantity.
C33_DebitedIsCredited ==
  Quiescent
    => \A d \in debited :
         \E c \in BagToSet(credited) :
           /\ c.contract_id = d.contract_id
           /\ c.qty = d.qty

\* the contracts of transaction i debited at a seller
ContractsOf(i) == {d \in debited : d.tx = i}

\* C34: for each transaction at most one contract is debited at a seller, and
\* the buyer's energy is credited at most once.
C34_OneContract ==
  \A i \in 1..MaxTx :
    /\ Cardinality(ContractsOf(i)) <= 1
    /\ SumCopies({c \in BagToSet(credited) : c.tx = i}) <= 1

\* the offers the buyer a holds for transaction i
OffersOf(a, i) ==
  {store[a][i].received_offers[j] : j \in 1..Len(store[a][i].received_offers)}

\* C35: when process_confirmation concludes a contract of a transaction, no
\* offer the buyer holds for that transaction at that moment has a price
\* below the one that seller offered.
C35_ContractAtMinimum ==
  [][\A d \in debited' \ debited :
       \A o \in OffersOf(U1, d.tx), cheaper \in OffersOf(U1, d.tx) :
         o.provider_id = d.agent => o.price_per_kwh <= cheaper.price_per_kwh]_vars

\* C36: no on_search is addressed by an agent to itself as the buyer of the
\* search, and no contract debited has its seller as buyer.
C36_NoSelfTrade ==
  /\ \A p \in BagToSet(posts) :
       (p.kind # "start" /\ p.url.action = "on_search")
         => p.payload.context.bap_id # p.payload.context.bpp_id
  /\ \A p \in BagToSet(posts) :
       (p.kind # "start" /\ p.url.action = "on_confirm")
         => p.payload.message.order.bap_agent_id # p.payload.message.order.bpp_agent_id

\* C37: every select, init and confirm in flight is addressed to the url of
\* the agent that its order names as provider.
C37_AddressedToProvider ==
  \A p \in BagToSet(posts) :
    (p.kind # "start" /\ p.url.action \in {"select", "init", "confirm"})
      => p.url.base = OwnUrl(p.payload.message.order.provider)

\* C38: the contract process_confirmation builds has the price and the
\* quantity of the offer its seller made for the transaction.
C38_ContractHasOfferTerms ==
  [][\A r \in BagToSet(running), r2 \in BagToSet(running') :
       (Stepped(r, r2) /\ r.at = "process_confirmation")
       => LET contract == r2.made[1].payload.message.order
              context == r.own.active_transaction_context[1]
          IN \A o \in OffersOf(Listener(context.bap_uri)[1], context.transaction_id) :
               o.provider_id = contract.bpp_agent_id
                 => /\ contract.agreed_price_per_kwh = o.price_per_kwh
                    /\ contract.agreed_quantity_kwh = o.quantity_kwh]_vars

\* C39: the quantity of every offer formulate_offer returns is at most the
\* energy of the profile it ran on.
C39_OfferWithinEnergy ==
  [][\A r \in BagToSet(running), r2 \in BagToSet(running') :
       (Stepped(r, r2) /\ r.at = "formulate_offer" /\ r2.made # None)
       => \A j \in 1..Len(r2.made[1].payload.message.catalog.items) :
            r2.made[1].payload.message.catalog.items[j].quantity_kwh
              <= r.own.profile[1].current_energy_storage_kwh]_vars

====
